---- MODULE Spec2Model ----
(***************************************************************************)
(* Model of mipptx's chart update paths:                                   *)
(*   ChartModel.update_workbook_only   (charts.py 573-718)                 *)
(*   ChartModel.apply_to_existing_chart (charts.py 721-936, the binding    *)
(*                                       second definition)                *)
(*   PresentationModel.update_charts_in_presentation (presentation.py)     *)
(* Text is a sequence of one-character strings.  An Optional value is the  *)
(* empty sequence (None) or a one-element sequence.                        *)
(***************************************************************************)
EXTENDS Integers, Sequences, FiniteSets, TLC

VARIABLES
    \* ---- range parsing / cell writing (parse_formula, write_range) ----
    ref,        \* the reference the formula text was produced from
    ftext,      \* the formula text handed to parse_formula / write_range
    pf,         \* result of parse_formula(ftext)
    vals,       \* the value list handed to write_range
    wb,         \* the in-memory workbook write_range works on
    wb0,        \* the workbook before write_range
    wr,         \* outcome of write_range
    rpc,        \* position of the range scenario
    \* ---- one ChartModel applied to one live chart ----
    self,       \* the ChartModel the method is called on
    chart,      \* the live chart
    chart0,     \* the live chart before the call
    res,        \* how the call ended: [st, ret]
    log,        \* the engine calls the method made, in order
    cpc,        \* position of the chart scenario
    \* ---- PresentationModel.update_charts_in_presentation ----
    slides,     \* self.slides: the model slides, each a sequence of model shapes
    prs,        \* prs.slides: the live document, each slide a sequence of shapes
    prs0,       \* the live document before the call
    strict,     \* the strict argument
    slide_i,    \* the slide loop's index i, counted from 1
    filled,     \* the pairs (model chart, live shape) of the current slide
    fpos,       \* position of the "for cm, gframe in filled" loop
    calls,      \* one record per pair processed so far, in order
    last,       \* the live chart of the last pair: before, after the workbook
                \* update, after the pair
    uret,       \* the value returned
    upc,        \* position of the call
    \* ---- one constructor, validator or conversion applied to one input ----
    inp,        \* the input: a payload, a model or a live object
    out,        \* what the operation returned or raised
    ppc         \* position of the scenario

rangeVars == <<ref, ftext, pf, vals, wb, wb0, wr, rpc>>
chartVars == <<self, chart, chart0, res, log, cpc>>
updVars == <<slides, prs, prs0, strict, slide_i, filled, fpos, calls, last, uret, upc>>
pureVars == <<inp, out, ppc>>
vars == <<ref, ftext, pf, vals, wb, wb0, wr, rpc, self, chart, chart0, res, log, cpc,
          slides, prs, prs0, strict, slide_i, filled, fpos, calls, last, uret, upc,
          inp, out, ppc>>

\* ------------------------------------------------------------------------
\* Bounds
\* ------------------------------------------------------------------------
MaxRow == 3
MaxVals == 3
MaxSeries == 2

\* ------------------------------------------------------------------------
\* Optional values
\* ------------------------------------------------------------------------
None == <<>>
Some(v) == <<v>>
IsNone(o) == o = <<>>
Get(o) == o[1]

Min(a, b) == IF a <= b THEN a ELSE b
Max(a, b) == IF a >= b THEN a ELSE b

\* ------------------------------------------------------------------------
\* Text helpers (str methods used by parse_formula)
\* ------------------------------------------------------------------------
Letters == <<"A","B","C","D","E","F","G","H","I","J","K","L","M",
             "N","O","P","Q","R","S","T","U","V","W","X","Y","Z">>
Digits == <<"0","1","2","3","4","5","6","7","8","9">>

IsAlpha(ch) == \E i \in 1..26 : Letters[i] = ch
LetterOrd(ch) == CHOOSE i \in 1..26 : Letters[i] = ch
IsDigit(ch) == \E i \in 1..10 : Digits[i] = ch
DigitVal(ch) == (CHOOSE i \in 1..10 : Digits[i] = ch) - 1

Contains(s, ch) == \E i \in 1..Len(s) : s[i] = ch
IndexOf(s, ch) == CHOOSE i \in 1..Len(s) : s[i] = ch /\ \A j \in 1..(i-1) : s[j] # ch
Slice(s, a, b) == IF a > b THEN <<>> ELSE SubSeq(s, a, b)

RECURSIVE LStrip(_)
LStrip(s) == IF s # <<>> /\ s[1] = " " THEN LStrip(Tail(s)) ELSE s
RECURSIVE RStrip(_)
RStrip(s) == IF s # <<>> /\ s[Len(s)] = " " THEN RStrip(Slice(s, 1, Len(s)-1)) ELSE s
Strip(s) == RStrip(LStrip(s))

RECURSIVE RemoveChar(_, _)
RemoveChar(s, ch) ==
    IF s = <<>> THEN <<>>
    ELSE IF s[1] = ch THEN RemoveChar(Tail(s), ch)
    ELSE <<s[1]>> \o RemoveChar(Tail(s), ch)

\* str.split(sep) with no limit: the list of pieces
RECURSIVE Split(_, _)
Split(s, sep) ==
    IF ~Contains(s, sep) THEN <<s>>
    ELSE LET i == IndexOf(s, sep)
         IN  <<Slice(s, 1, i-1)>> \o Split(Slice(s, i+1, Len(s)), sep)

\* int(text): surrounding blanks are accepted, anything but digits raises
IsInt(s) == LET t == Strip(s) IN t # <<>> /\ \A i \in 1..Len(t) : IsDigit(t[i])
RECURSIVE DigitsVal(_)
DigitsVal(t) == IF t = <<>> THEN 0 ELSE DigitsVal(Slice(t, 1, Len(t)-1)) * 10 + DigitVal(t[Len(t)])
IntVal(s) == DigitsVal(Strip(s))

\* str(int) for a non-negative int
RECURSIVE IntToText(_)
IntToText(n) == IF n < 10 THEN <<Digits[n+1]>> ELSE IntToText(n \div 10) \o <<Digits[(n % 10) + 1]>>

\* ------------------------------------------------------------------------
\* update_workbook_only helpers
\* ------------------------------------------------------------------------
RECURSIVE col_to_idx_from(_, _)
col_to_idx_from(col, n) ==
    IF col = <<>> THEN n
    ELSE IF col[1] = "$" THEN col_to_idx_from(Tail(col), n)
    ELSE col_to_idx_from(Tail(col), n * 26 + LetterOrd(col[1]))
col_to_idx(col) == col_to_idx_from(col, 0)

RECURSIVE idx_to_col(_)
idx_to_col(n) ==
    IF n > 0 THEN idx_to_col((n - 1) \div 26) \o <<Letters[((n - 1) % 26) + 1]>>
    ELSE <<>>

RECURSIVE AlphaPrefixLen(_)
AlphaPrefixLen(c) == IF c # <<>> /\ IsAlpha(c[1]) THEN 1 + AlphaPrefixLen(Tail(c)) ELSE 0

\* parse_cell: [st |-> "ok", col, row] or [st |-> "raise"] when int() raises
parse_cell(c0) ==
    LET c == RemoveChar(c0, "$")
        i == AlphaPrefixLen(c)
        col == Slice(c, 1, i)
        rest == Slice(c, i+1, Len(c))
    IN  IF i < Len(c)
        THEN IF IsInt(rest) THEN [st |-> "ok", col |-> col, row |-> IntVal(rest)]
             ELSE [st |-> "raise", col |-> col, row |-> 0]
        ELSE [st |-> "ok", col |-> col, row |-> 0]

\* the inner loop "for ci in range(lo, hi + 1)" of one row r
RECURSIVE ColLoop(_, _, _)
ColLoop(ci, hi, r) ==
    IF ci > hi THEN <<>>
    ELSE <<idx_to_col(ci) \o IntToText(r)>> \o ColLoop(ci + 1, hi, r)

\* the outer loop "for r in range(lo, hi + 1)"
RECURSIVE RowLoop(_, _, _, _)
RowLoop(r, rhi, clo, chi) ==
    IF r > rhi THEN <<>>
    ELSE ColLoop(clo, chi, r) \o RowLoop(r + 1, rhi, clo, chi)

\* the loops run from the first corner to the second, without min/max
RangeCells_cornerOrder(r1, r2, c1i, c2i) ==
    RowLoop(r1, r2, c1i, c2i)

\* "for r in range(min(r1, r2), max(r1, r2) + 1): for ci in range(min(c1i, c2i), ...)"
RangeCells(r1, r2, c1i, c2i) ==
    RowLoop(Min(r1, r2), Max(r1, r2), Min(c1i, c2i), Max(c1i, c2i))

PfNone == [st |-> "none", sheet |-> <<>>, cells |-> <<>>]
PfRaise == [st |-> "raise", sheet |-> <<>>, cells |-> <<>>]

parse_formula(f) ==
    IF f = <<>> THEN PfNone
    ELSE LET txt == Strip(f) IN
    IF ~Contains(txt, "!") THEN PfNone
    ELSE LET b == IndexOf(txt, "!")
             sheet0 == Slice(txt, 1, b-1)
             rng == Slice(txt, b+1, Len(txt))
             sheet == IF sheet0 # <<>> /\ sheet0[1] = "'" /\ sheet0[Len(sheet0)] = "'"
                      THEN Slice(sheet0, 2, Len(sheet0)-1) ELSE sheet0
             parts == Split(rng, ":")
             p1 == parse_cell(parts[1])
         IN  IF Len(parts) = 1
             THEN IF p1.st = "raise" THEN PfRaise
                  ELSE [st |-> "ok", sheet |-> sheet,
                        cells |-> <<p1.col \o IntToText(p1.row)>>]
             ELSE IF p1.st = "raise" THEN PfRaise
             ELSE LET p2 == parse_cell(parts[2]) IN
                  IF p2.st = "raise" THEN PfRaise
                  ELSE [st |-> "ok", sheet |-> sheet,
                        cells |-> RangeCells(p1.row, p2.row,
                                             col_to_idx(p1.col), col_to_idx(p2.col))]

\* ------------------------------------------------------------------------
\* The in-memory workbook (openpyxl): sheet name -> (cell address -> value)
\* ------------------------------------------------------------------------
\* ws[cell] yields one cell only for an address of 1..3 letters followed by
\* a row number >= 1; for anything else the subscript or the .value
\* assignment raises
CoordValid(cell) ==
    LET i == AlphaPrefixLen(cell)
        rest == Slice(cell, i+1, Len(cell))
    IN  /\ i >= 1 /\ i <= 3
        /\ rest # <<>>
        /\ \A k \in 1..Len(rest) : IsDigit(rest[k])
        /\ DigitsVal(rest) >= 1

SetCell(ws, cell, v) == [c \in (DOMAIN ws) \cup {cell} |-> IF c = cell THEN v ELSE ws[c]]

\* the loop without the break: cells past the values are cleared
RECURSIVE WriteLoop_clearRest(_, _, _, _)
WriteLoop_clearRest(ws, cells, values, i) ==
    IF i > Len(cells) THEN [st |-> "ok", ws |-> ws]
    ELSE IF ~CoordValid(cells[i]) THEN [st |-> "raise", ws |-> ws]
    ELSE WriteLoop_clearRest(
            SetCell(ws, cells[i], IF i > Len(values) THEN "None" ELSE values[i]),
            cells, values, i + 1)

\* "for i, cell in enumerate(cells): if i >= len(values): break; ws[cell].value = values[i]"
RECURSIVE WriteLoop(_, _, _, _)
WriteLoop(ws, cells, values, i) ==
    IF i > Len(cells) THEN [st |-> "ok", ws |-> ws]
    ELSE IF i > Len(values) THEN [st |-> "ok", ws |-> ws]
    ELSE IF ~CoordValid(cells[i]) THEN [st |-> "raise", ws |-> ws]
    ELSE WriteLoop(SetCell(ws, cells[i], values[i]), cells, values, i + 1)

\* write_range after parse_formula returned p: unparseable references and
\* absent sheets are skipped silently
WriteParsed(w, p, values) ==
    IF p.st = "raise" THEN [st |-> "raise", wb |-> w]
    ELSE IF p.st = "none" THEN [st |-> "ok", wb |-> w]
    ELSE IF p.sheet \notin DOMAIN w THEN [st |-> "ok", wb |-> w]
    ELSE [st |-> WriteLoop(w[p.sheet], p.cells, values, 1).st,
          wb |-> [w EXCEPT ![p.sheet] = WriteLoop(w[p.sheet], p.cells, values, 1).ws]]

\* write_range(f, values) on workbook w: [st |-> "ok" | "raise", wb |-> workbook after]
write_range(w, f, values) == WriteParsed(w, parse_formula(f), values)

\* ------------------------------------------------------------------------
\* Formula references as they are stored in a series' c:f element
\* ------------------------------------------------------------------------
MaxCol == 5
ColIdxs == (1..MaxCol) \cup {26, 27, 28}
SheetS1 == <<"S", "1">>
SheetD2 == <<"D", "2">>

ColName(c) ==
    IF c <= 26 THEN <<Letters[c]>>
    ELSE <<Letters[(c - 1) \div 26], Letters[((c - 1) % 26) + 1]>>
CellName(c, r) == ColName(c) \o IntToText(r)
CellRefText(c, r, abs) ==
    IF abs THEN <<"$">> \o ColName(c) \o <<"$">> \o IntToText(r) ELSE CellName(c, r)

RefShapes == {"range", "single", "padded", "nobang", "badrow", "norow", "empty"}

Refs ==
    [shape : {"range"}, sheet : {SheetS1, SheetD2}, quoted : BOOLEAN, abs : BOOLEAN,
     c1 : ColIdxs, r1 : 1..MaxRow, c2 : ColIdxs, r2 : 1..MaxRow]
    \cup
    [shape : RefShapes \ {"range"}, sheet : {SheetS1, SheetD2}, quoted : BOOLEAN,
     abs : BOOLEAN, c1 : ColIdxs, r1 : 1..MaxRow, c2 : {1}, r2 : {1}]

FmtRef(r) ==
    LET sh == IF r.quoted THEN <<"'">> \o r.sheet \o <<"'">> ELSE r.sheet
        a == CellRefText(r.c1, r.r1, r.abs)
        b == CellRefText(r.c2, r.r2, r.abs)
    IN  CASE r.shape = "range"  -> sh \o <<"!">> \o a \o <<":">> \o b
          [] r.shape = "single" -> sh \o <<"!">> \o a
          [] r.shape = "padded" -> <<" ">> \o sh \o <<"!">> \o a \o <<" ">>
          [] r.shape = "nobang" -> a \o <<":">> \o a
          [] r.shape = "badrow" -> sh \o <<"!">> \o a \o <<"X">>
          [] r.shape = "norow"  -> sh \o <<"!">> \o ColName(r.c1)
          [] OTHER              -> <<>>

\* the cells a worksheet holds before an update
OldCells == {CellName(c, r) : c \in 1..MaxCol, r \in 1..MaxRow}
OldSheet == [c \in OldCells |-> "old"]
OldWorkbook == [s \in {SheetS1} |-> OldSheet]

ValueList(n) == [i \in 1..n |-> IF i = 1 THEN "v1" ELSE IF i = 2 THEN "v2"
                                 ELSE IF i = 3 THEN "v3" ELSE "v4"]

\* ========================================================================
\* The model side: ChartModel and its data blocks
\* ========================================================================
\* number of series / values of a data block
DataKinds == {"none", "category", "xy", "bubble"}

\* category_data with n series of m values each
CategoryData(n, m) ==
    [categories |-> [k \in 1..m |-> "cat"],
     series |-> [i \in 1..n |-> [values |-> ValueList(m)]]]
\* xy_data / bubble_data with n series of m points each
XyData(n, m) ==
    [series |-> [i \in 1..n |-> [points |-> [k \in 1..m |-> [x |-> "x", y |-> ValueList(m)[k]]]]]]
BubbleData(n, m) ==
    [series |-> [i \in 1..n |->
        [points |-> [k \in 1..m |-> [x |-> "x", y |-> ValueList(m)[k], size |-> "sz"]]]]]

\* a ChartModel: name, style, has_legend, title and the three data blocks;
\* cdRaises: the engine's chart-data container refuses this model's data
MkChartModel(name, style, has_legend, title, cat, xy, bub, cdRaises) ==
    [name |-> name, style |-> style, has_legend |-> has_legend, title |-> title,
     category_data |-> cat, xy_data |-> xy, bubble_data |-> bub, cdRaises |-> cdRaises]

\* the xy block is preferred to the category block
ActiveBlock_xyFirst(cm) ==
    IF cm.xy_data # None THEN "xy"
    ELSE IF cm.category_data # None THEN "category"
    ELSE IF cm.bubble_data # None THEN "bubble"
    ELSE "none"
\* the data block a write path uses: category, then xy, then bubble
ActiveBlock(cm) ==
    IF cm.category_data # None THEN "category"
    ELSE IF cm.xy_data # None THEN "xy"
    ELSE IF cm.bubble_data # None THEN "bubble"
    ELSE "none"

ActiveSeriesCount(cm) ==
    CASE ActiveBlock(cm) = "category" -> Len(Get(cm.category_data).series)
      [] ActiveBlock(cm) = "xy"       -> Len(Get(cm.xy_data).series)
      [] ActiveBlock(cm) = "bubble"   -> Len(Get(cm.bubble_data).series)
      [] OTHER                        -> 0

\* ========================================================================
\* The live chart of the document engine
\* ========================================================================
DlKeys == <<"number_format", "number_format_is_linked", "position", "show_value",
            "show_series_name", "show_category_name", "show_percentage">>
AxisLoopKeys == <<"major_tick_mark", "minor_tick_mark", "minimum_scale", "maximum_scale",
                  "major_unit", "minor_unit", "reverse_order", "tick_label_position",
                  "has_major_gridlines", "has_minor_gridlines", "visible">>
TickKeys == <<"tick_num_fmt", "tick_num_fmt_linked">>
AxisNames == <<"category_axis", "value_axis">>
LegendKeys == <<"position", "include_in_layout">>
FormulaKeys == {"cat", "val", "x", "y", "b"}

Range(seq) == {seq[i] : i \in 1..Len(seq)}
DlKeySet == Range(DlKeys)
AxisKeySet == {"has_title", "title_text"} \cup Range(AxisLoopKeys) \cup Range(TickKeys)

\* what the engine leaves after it rebuilt a series / an axis / the legend
DefaultDl == [k \in DlKeySet |-> IF k = "position" THEN None ELSE Some(0)]
DefaultAxisProps ==
    [k \in AxisKeySet |->
        IF k = "has_title" THEN Some(FALSE)
        ELSE IF k \in {"title_text", "minimum_scale", "maximum_scale", "major_unit", "minor_unit"}
        THEN None ELSE Some(0)]
DefaultLegend == [k \in Range(LegendKeys) |-> Some(0)]
NoLegend == [k \in Range(LegendKeys) |-> None]
NoFormulas == [k \in FormulaKeys |-> <<>>]
DefaultSeries == [dl |-> DefaultDl, dlReadable |-> TRUE, f |-> NoFormulas]

\* a setter the engine refuses is named <<object, series index or 0, property>>
Rejects(ch, dom, i, key) == <<dom, i, key>> \in ch.rejects

Ev(op, dom, i, key, ok) == [op |-> op, dom |-> dom, idx |-> i, key |-> key, ok |-> ok]

\* ------------------------------------------------------------------------
\* Engine setters.  st = [chart, log]; each returns st with the attempt logged
\* ------------------------------------------------------------------------
SetOk(st) == st.log # <<>> /\ st.log[Len(st.log)].ok

\* dl.<key> = v on series i
SetDlProp(st, i, key, v) ==
    IF Rejects(st.chart, "dl", i, key)
    THEN [st EXCEPT !.log = Append(@, Ev("set", "dl", i, key, FALSE))]
    ELSE [chart |-> [st.chart EXCEPT !.series[i].dl[key] = Some(v)],
          log |-> Append(st.log, Ev("set", "dl", i, key, TRUE))]

\* ax.has_title = v: a new title is empty, a removed title has no text
SetAxisHasTitle(st, name, v) ==
    IF Rejects(st.chart, name, 0, "has_title")
    THEN [st EXCEPT !.log = Append(@, Ev("set", name, 0, "has_title", FALSE))]
    ELSE LET old == st.chart.axes[name].p
             txt == IF ~v THEN None
                    ELSE IF old["has_title"] = Some(TRUE) THEN old["title_text"]
                    ELSE Some(0)
         IN  [chart |-> [st.chart EXCEPT !.axes[name].p["has_title"] = Some(v),
                                         !.axes[name].p["title_text"] = txt],
              log |-> Append(st.log, Ev("set", name, 0, "has_title", TRUE))]

\* any other axis property, ax.axis_title.text_frame.text and tick_labels.* included
SetAxisProp(st, name, key, v) ==
    IF Rejects(st.chart, name, 0, key)
    THEN [st EXCEPT !.log = Append(@, Ev("set", name, 0, key, FALSE))]
    ELSE [chart |-> [st.chart EXCEPT !.axes[name].p[key] = Some(v)],
          log |-> Append(st.log, Ev("set", name, 0, key, TRUE))]

\* chart.has_legend = v: a new legend has the default placement
SetHasLegend(st, v) ==
    IF Rejects(st.chart, "chart", 0, "has_legend")
    THEN [st EXCEPT !.log = Append(@, Ev("set", "chart", 0, "has_legend", FALSE))]
    ELSE [chart |-> [st.chart EXCEPT !.has_legend = v,
                                     !.legend = IF ~v THEN NoLegend
                                                ELSE IF st.chart.has_legend THEN @
                                                ELSE DefaultLegend],
          log |-> Append(st.log, Ev("set", "chart", 0, "has_legend", TRUE))]

SetLegendProp(st, key, v) ==
    IF Rejects(st.chart, "legend", 0, key)
    THEN [st EXCEPT !.log = Append(@, Ev("set", "legend", 0, key, FALSE))]
    ELSE [chart |-> [st.chart EXCEPT !.legend[key] = Some(v)],
          log |-> Append(st.log, Ev("set", "legend", 0, key, TRUE))]

SetChartStyle(st, v) ==
    IF Rejects(st.chart, "chart", 0, "chart_style")
    THEN [st EXCEPT !.log = Append(@, Ev("set", "chart", 0, "chart_style", FALSE))]
    ELSE [chart |-> [st.chart EXCEPT !.chart_style = Some(v)],
          log |-> Append(st.log, Ev("set", "chart", 0, "chart_style", TRUE))]

\* chart.has_title = True
SetChartHasTitle(st) ==
    IF Rejects(st.chart, "chart", 0, "has_title")
    THEN [st EXCEPT !.log = Append(@, Ev("set", "chart", 0, "has_title", FALSE))]
    ELSE [chart |-> [st.chart EXCEPT !.has_title = TRUE,
                                     !.title = IF st.chart.has_title THEN @ ELSE Some("")],
          log |-> Append(st.log, Ev("set", "chart", 0, "has_title", TRUE))]

\* chart.chart_title.text_frame.text = v
SetChartTitleText(st, v) ==
    IF Rejects(st.chart, "chart", 0, "title")
    THEN [st EXCEPT !.log = Append(@, Ev("set", "chart", 0, "title", FALSE))]
    ELSE [chart |-> [st.chart EXCEPT !.title = Some(v)],
          log |-> Append(st.log, Ev("set", "chart", 0, "title", TRUE))]

\* ========================================================================
\* ChartModel.apply_to_existing_chart
\* ========================================================================
NoSnap(keys) == [present |-> FALSE, f |-> [k \in keys |-> None]]

\* _snapshot_dlbls: one record per series, {} for a series that cannot be read
\* and [] when the series collection itself cannot be iterated
snapshot_dlbls_skipUnreadable(ch) ==
    IF ch.seriesRaises THEN <<>>
    ELSE LET readable == SelectSeq(ch.series, LAMBDA x : x.dlReadable)
         IN  [i \in 1..Len(readable) |-> [present |-> TRUE, f |-> readable[i].dl]]
snapshot_dlbls(ch) ==
    IF ch.seriesRaises THEN <<>>
    ELSE [i \in 1..Len(ch.series) |->
            IF ch.series[i].dlReadable
            THEN [present |-> TRUE, f |-> ch.series[i].dl]
            ELSE NoSnap(DlKeySet)]

\* the body of the per-series try block, from field k of DlKeys on: the first
\* refused assignment ends the block
RECURSIVE RestoreDlFields(_, _, _, _)
RestoreDlFields(st, i, snap, k) ==
    IF k > Len(DlKeys) THEN st
    ELSE IF snap.f[DlKeys[k]] = None THEN RestoreDlFields(st, i, snap, k + 1)
    ELSE LET st2 == SetDlProp(st, i, DlKeys[k], Get(snap.f[DlKeys[k]]))
         IN  IF SetOk(st2) THEN RestoreDlFields(st2, i, snap, k + 1) ELSE st2

\* "for s, snap in zip(ch.series, snapshot)" from position i on
RECURSIVE RestoreDlSeries(_, _, _)
RestoreDlSeries(st, snapshot, i) ==
    IF i > Len(st.chart.series) \/ i > Len(snapshot) THEN st
    ELSE IF ~st.chart.series[i].dlReadable THEN RestoreDlSeries(st, snapshot, i + 1)
    ELSE RestoreDlSeries(RestoreDlFields(st, i, snapshot[i], 1), snapshot, i + 1)

restore_dlbls(st, snapshot) ==
    IF st.chart.seriesRaises THEN st ELSE RestoreDlSeries(st, snapshot, 1)

\* _snap_axis: None for a missing axis, {} when a getter raises
snap_axis(ch, name) ==
    LET ax == ch.axes[name] IN
    IF ~ax.exists THEN [isNone |-> TRUE, present |-> FALSE, f |-> [k \in AxisKeySet |-> None]]
    ELSE IF ~ax.readable
    THEN [isNone |-> FALSE, present |-> FALSE, f |-> [k \in AxisKeySet |-> None]]
    ELSE [isNone |-> FALSE, present |-> TRUE,
          f |-> [ax.p EXCEPT !["title_text"] =
                    IF ax.p["has_title"] = Some(TRUE) THEN ax.p["title_text"] ELSE None]]

snapshot_axes_allOrNothing(ch) ==
    IF \E a \in Range(AxisNames) : ~ch.axes[a].exists \/ ~ch.axes[a].readable
    THEN [name \in Range(AxisNames) |->
            [isNone |-> FALSE, present |-> FALSE, f |-> [k \in AxisKeySet |-> None]]]
    ELSE [name \in Range(AxisNames) |-> snap_axis(ch, name)]
snapshot_axes(ch) == [name \in Range(AxisNames) |-> snap_axis(ch, name)]

\* the guarded loop over the eleven plain axis properties
RECURSIVE RestoreAxisLoop(_, _, _, _)
RestoreAxisLoop(st, name, d, k) ==
    IF k > Len(AxisLoopKeys) THEN st
    ELSE IF d.f[AxisLoopKeys[k]] = None THEN RestoreAxisLoop(st, name, d, k + 1)
    ELSE RestoreAxisLoop(SetAxisProp(st, name, AxisLoopKeys[k], Get(d.f[AxisLoopKeys[k]])),
                         name, d, k + 1)

\* the unguarded tick-label assignments at the end of the try block
RestoreAxisTicks(st, name, d) ==
    LET st1 == IF d.f["tick_num_fmt"] # None
               THEN SetAxisProp(st, name, "tick_num_fmt", Get(d.f["tick_num_fmt"]))
               ELSE st
        failed1 == d.f["tick_num_fmt"] # None /\ ~SetOk(st1)
    IN  IF failed1 THEN st1
        ELSE IF d.f["tick_num_fmt_linked"] # None
        THEN SetAxisProp(st1, name, "tick_num_fmt_linked", Get(d.f["tick_num_fmt_linked"]))
        ELSE st1

restore_axis(st, name, d) ==
    IF ~st.chart.axes[name].exists \/ ~d.present THEN st
    ELSE LET ht == d.f["has_title"]
             st1 == IF ht # None THEN SetAxisHasTitle(st, name, Get(ht)) ELSE st
             failed1 == ht # None /\ ~SetOk(st1)
         IN  IF failed1 THEN st1
             ELSE LET st2 == IF ht # None /\ Get(ht) /\ d.f["title_text"] # None
                             THEN SetAxisProp(st1, name, "title_text", Get(d.f["title_text"]))
                             ELSE st1
                  IN  RestoreAxisTicks(RestoreAxisLoop(st2, name, d, 1), name, d)

restore_axes(st, snap) ==
    restore_axis(restore_axis(st, "category_axis", snap["category_axis"]),
                 "value_axis", snap["value_axis"])

\* _snapshot_legend: {} when reading raises
snapshot_legend(ch) ==
    IF ~ch.legendReadable THEN [has_legend |-> None, f |-> NoLegend]
    ELSE IF ~ch.has_legend THEN [has_legend |-> Some(FALSE), f |-> NoLegend]
    ELSE [has_legend |-> Some(TRUE), f |-> ch.legend]

restore_legend(st, d) ==
    LET st1 == IF d.has_legend # None THEN SetHasLegend(st, Get(d.has_legend)) ELSE st
        failed1 == d.has_legend # None /\ ~SetOk(st1)
    IN  IF failed1 \/ d.has_legend = None \/ ~Get(d.has_legend) THEN st1
        ELSE LET st2 == IF d.f["position"] # None
                        THEN SetLegendProp(st1, "position", Get(d.f["position"]))
                        ELSE st1
                 failed2 == d.f["position"] # None /\ ~SetOk(st2)
             IN  IF failed2 THEN st2
                 ELSE IF d.f["include_in_layout"] # None
                 THEN SetLegendProp(st2, "include_in_layout", Get(d.f["include_in_layout"]))
                 ELSE st2

\* the workbook the engine writes for new chart data
FreshWorkbook == [s \in {SheetS1} |-> [c \in OldCells |-> "new"]]

\* chart.replace_data(cd) when it does not raise: the series list follows the
\* chart data; in the reset modes every series, axis and the legend come back
\* with the engine's defaults
replace_data(ch, cm) ==
    LET n == ActiveSeriesCount(cm)
        reset == ch.replaceMode \in {"reset_off", "reset_on"}
        ser == [i \in 1..n |->
                  IF i > Len(ch.series) THEN DefaultSeries
                  ELSE IF reset THEN [ch.series[i] EXCEPT !.dl = DefaultDl]
                  ELSE ch.series[i]]
        axs == [name \in Range(AxisNames) |->
                  IF reset /\ ch.axes[name].exists
                  THEN [ch.axes[name] EXCEPT !.p = DefaultAxisProps]
                  ELSE ch.axes[name]]
    IN  [ch EXCEPT !.series = ser,
                   !.axes = axs,
                   !.has_legend = IF reset THEN ch.replaceMode = "reset_on" ELSE @,
                   !.legend = IF ch.replaceMode = "reset_on" THEN DefaultLegend
                              ELSE IF ch.replaceMode = "reset_off" THEN NoLegend ELSE @,
                   !.data = Some([kind |-> ActiveBlock(cm), n |-> n]),
                   !.blob = [st |-> "ok", wb |-> FreshWorkbook]]

\* the else branch without the axes restore
ReplaceAndRestore_noAxes(st, cm, dl_snapshot, axes_snapshot, legend_snapshot) ==
    IF st.chart.replaceMode = "raise"
    THEN [st EXCEPT !.log = Append(@, Ev("call", "chart", 0, "replace_data", FALSE))]
    ELSE LET st1 == [chart |-> replace_data(st.chart, cm),
                     log |-> Append(st.log, Ev("call", "chart", 0, "replace_data", TRUE))]
         IN  restore_legend(restore_dlbls(st1, dl_snapshot), legend_snapshot)

\* lines 913-920: replace, and restore the three snapshots only in the else branch
ReplaceAndRestore(st, cm, dl_snapshot, axes_snapshot, legend_snapshot) ==
    IF st.chart.replaceMode = "raise"
    THEN [st EXCEPT !.log = Append(@, Ev("call", "chart", 0, "replace_data", FALSE))]
    ELSE LET st1 == [chart |-> replace_data(st.chart, cm),
                     log |-> Append(st.log, Ev("call", "chart", 0, "replace_data", TRUE))]
             st2 == restore_dlbls([st1 EXCEPT !.log = Append(@, Ev("call", "chart", 0, "restore_dlbls", TRUE))],
                                  dl_snapshot)
             st3 == restore_axes([st2 EXCEPT !.log = Append(@, Ev("call", "chart", 0, "restore_axes", TRUE))],
                                 axes_snapshot)
         IN  restore_legend([st3 EXCEPT !.log = Append(@, Ev("call", "chart", 0, "restore_legend", TRUE))],
                            legend_snapshot)

\* one try block around the three overrides: the first failure ends them
ApplyOverrides_stopOnFailure(st, cm) ==
    LET st1 == IF cm.style # None THEN SetChartStyle(st, Get(cm.style)) ELSE st
        ok1 == cm.style = None \/ SetOk(st1)
        st2 == IF ok1 /\ cm.has_legend # None
               THEN SetHasLegend(st1, Get(cm.has_legend)) ELSE st1
        ok2 == ok1 /\ (cm.has_legend = None \/ SetOk(st2))
    IN  IF cm.title = None \/ ~ok2 THEN st2
        ELSE LET st3 == SetChartHasTitle(st2)
             IN  IF SetOk(st3) THEN SetChartTitleText(st3, Get(cm.title)) ELSE st3

\* lines 921-936: style, has_legend and title, each in its own try block
ApplyOverrides(st, cm) ==
    LET st1 == IF cm.style # None THEN SetChartStyle(st, Get(cm.style)) ELSE st
        st2 == IF cm.has_legend # None THEN SetHasLegend(st1, Get(cm.has_legend)) ELSE st1
    IN  IF cm.title = None THEN st2
        ELSE LET st3 == SetChartHasTitle(st2)
             IN  IF SetOk(st3) THEN SetChartTitleText(st3, Get(cm.title)) ELSE st3

\* the legend snapshot taken after the replacement
apply_to_existing_chart_lateLegendSnapshot(cm, ch) ==
    LET dl_snapshot == snapshot_dlbls(ch)
        axes_snapshot == snapshot_axes(ch)
        legend_snapshot == snapshot_legend(ch)
        st0 == [chart |-> ch,
                log |-> << Ev("call", "chart", 0, "snapshot_dlbls", TRUE),
                           Ev("call", "chart", 0, "snapshot_axes", TRUE) >>]
    IN  IF ActiveBlock(cm) # "none" /\ cm.cdRaises
        THEN [st |-> "raise", chart |-> ch,
              log |-> Append(st0.log, Ev("call", "model", 0, "to_chart_data", FALSE))]
        ELSE LET st1 == IF ActiveBlock(cm) # "none"
                        THEN ReplaceAndRestore(st0, cm, dl_snapshot, axes_snapshot, legend_snapshot)
                        ELSE st0
                 st2 == ApplyOverrides([st1 EXCEPT !.log = Append(@, Ev("call", "chart", 0, "snapshot_legend", TRUE))], cm)
             IN  [st |-> "ok", chart |-> st2.chart, log |-> st2.log]

\* the whole method: [st |-> "ok" | "raise", chart, log]
apply_to_existing_chart(cm, ch) ==
    LET dl_snapshot == snapshot_dlbls(ch)
        axes_snapshot == snapshot_axes(ch)
        legend_snapshot == snapshot_legend(ch)
        st0 == [chart |-> ch,
                log |-> << Ev("call", "chart", 0, "snapshot_dlbls", TRUE),
                           Ev("call", "chart", 0, "snapshot_axes", TRUE),
                           Ev("call", "chart", 0, "snapshot_legend", TRUE) >>]
    IN  IF ActiveBlock(cm) # "none" /\ cm.cdRaises
        THEN [st |-> "raise", chart |-> ch,
              log |-> Append(st0.log, Ev("call", "model", 0, "to_chart_data", FALSE))]
        ELSE LET st1 == IF ActiveBlock(cm) # "none"
                        THEN ReplaceAndRestore(st0, cm, dl_snapshot, axes_snapshot, legend_snapshot)
                        ELSE st0
                 st2 == ApplyOverrides(st1, cm)
             IN  [st |-> "ok", chart |-> st2.chart, log |-> st2.log]

\* ========================================================================
\* ChartModel.update_workbook_only
\* ========================================================================
Job(f, v) == [f |-> f, v |-> v]

\* list(block.series[idx].values) / .points, [] when idx is out of range
CategoryValues(cm, idx) ==
    LET sers == Get(cm.category_data).series
    IN  IF idx <= Len(sers) THEN sers[idx].values ELSE <<>>
XyPoints(cm, idx) ==
    LET sers == Get(cm.xy_data).series
    IN  IF idx <= Len(sers) THEN sers[idx].points ELSE <<>>
BubblePoints(cm, idx) ==
    LET sers == Get(cm.bubble_data).series
    IN  IF idx <= Len(sers) THEN sers[idx].points ELSE <<>>

\* the write_range calls one series makes, in order
SeriesJobs(cm, ch, idx) ==
    LET f == ch.series[idx].f
        IfF(key, v) == IF f[key] # <<>> THEN <<Job(f[key], v)>> ELSE <<>>
    IN  CASE ActiveBlock(cm) = "category" ->
                IfF("val", CategoryValues(cm, idx))
          [] ActiveBlock(cm) = "xy" ->
                LET pts == XyPoints(cm, idx)
                IN  IfF("x", [k \in 1..Len(pts) |-> pts[k].x])
                    \o IfF("y", [k \in 1..Len(pts) |-> pts[k].y])
          [] ActiveBlock(cm) = "bubble" ->
                LET pts == BubblePoints(cm, idx)
                IN  IfF("x", [k \in 1..Len(pts) |-> pts[k].x])
                    \o IfF("y", [k \in 1..Len(pts) |-> pts[k].y])
                    \o IfF("b", [k \in 1..Len(pts) |-> pts[k].size])
          [] OTHER -> <<>>

RECURSIVE AllSeriesJobs(_, _, _)
AllSeriesJobs(cm, ch, idx) ==
    IF idx > Len(ch.series) THEN <<>>
    ELSE SeriesJobs(cm, ch, idx) \o AllSeriesJobs(cm, ch, idx + 1)

\* the categories are written first, to the first series' category reference
WriteJobs(cm, ch) ==
    LET catJob ==
            IF ActiveBlock(cm) = "category" /\ Len(ch.series) > 0
               /\ ch.series[1].f["cat"] # <<>>
               /\ Get(cm.category_data).categories # <<>>
            THEN <<Job(ch.series[1].f["cat"], Get(cm.category_data).categories)>>
            ELSE <<>>
    IN  catJob \o AllSeriesJobs(cm, ch, 1)

\* the try block of lines 657-709: the first write_range that raises ends it
RECURSIVE RunJobs(_, _, _)
RunJobsAfter(r, jobs, k) ==
    IF r.st = "raise" THEN r ELSE RunJobs(r.wb, jobs, k + 1)
RunJobs(w, jobs, k) ==
    IF k > Len(jobs) THEN [st |-> "ok", wb |-> w]
    ELSE RunJobsAfter(write_range(w, jobs[k].f, jobs[k].v), jobs, k)

\* lines 711-718: the workbook r.wb is saved back into the chart part, unless a
\* write raised
SaveWorkbook(ch, r) ==
    IF r.st = "raise"
    THEN [st |-> "ok", ret |-> FALSE, chart |-> ch, log |-> <<>>]
    ELSE IF ch.saveRaises
    THEN [st |-> "ok", ret |-> FALSE, chart |-> ch,
          log |-> <<Ev("call", "chart", 0, "update_from_xlsx_blob", FALSE)>>]
    ELSE [st |-> "ok", ret |-> TRUE,
          chart |-> [ch EXCEPT !.blob.wb = r.wb],
          log |-> <<Ev("call", "chart", 0, "update_from_xlsx_blob", TRUE)>>]

\* the model's style, legend flag and title are written as well
update_workbook_only_restyle(cm, ch) ==
    [st |-> "ok", ret |-> TRUE,
     chart |-> ApplyOverrides([chart |-> ch, log |-> <<>>], cm).chart,
     log |-> ApplyOverrides([chart |-> ch, log |-> <<>>], cm).log]

\* the whole method: [st |-> "ok" | "raise", ret, chart, log]
update_workbook_only(cm, ch) ==
    IF ch.blob.st # "ok"
    THEN [st |-> "ok", ret |-> FALSE, chart |-> ch, log |-> <<>>]
    ELSE IF ch.seriesRaises
    THEN [st |-> "raise", ret |-> FALSE, chart |-> ch, log |-> <<>>]
    ELSE IF ActiveBlock(cm) = "none"
    THEN [st |-> "ok", ret |-> FALSE, chart |-> ch, log |-> <<>>]
    ELSE SaveWorkbook(ch, RunJobs(ch.blob.wb, WriteJobs(cm, ch), 1))

\* ========================================================================
\* Bounded inputs: models and live charts
\* ========================================================================
Overrides == {"none", "style", "legend_on", "legend_off", "title", "all"}

\* a ChartModel with one data block of n series of m values
MkCm(name, kind, n, m, ov, cdRaises) ==
    MkChartModel(name,
        IF ov \in {"style", "all"} THEN Some(7) ELSE None,
        IF ov \in {"legend_on", "all"} THEN Some(TRUE)
        ELSE IF ov = "legend_off" THEN Some(FALSE) ELSE None,
        IF ov \in {"title", "all"} THEN Some("T") ELSE None,
        IF kind = "category" THEN Some(CategoryData(n, m)) ELSE None,
        IF kind = "xy" THEN Some(XyData(n, m)) ELSE None,
        IF kind = "bubble" THEN Some(BubbleData(n, m)) ELSE None,
        cdRaises)

\* formula references of series i: categories / x in column A, values / y in
\* column i+1, bubble sizes in column i+3, rows 2..MaxRow
GoodRef(c) == [shape |-> "range", sheet |-> SheetS1, quoted |-> FALSE, abs |-> TRUE,
               c1 |-> c, r1 |-> 2, c2 |-> c, r2 |-> MaxRow]
SeriesFormulas(i, valRef) ==
    [k \in FormulaKeys |->
        CASE k = "cat" -> FmtRef(GoodRef(1))
          [] k = "x"   -> FmtRef(GoodRef(1))
          [] k = "val" -> FmtRef(valRef)
          [] k = "y"   -> FmtRef(valRef)
          [] OTHER     -> FmtRef(GoodRef(i + 3))]

\* which properties of a formatting profile are null
Profiles == {"full", "empty", "odd", "even"}
Nulled(P, idx) ==
    \/ P = "empty"
    \/ P = "odd" /\ idx % 2 = 1
    \/ P = "even" /\ idx % 2 = 0
KeyIdx(seq, k) == CHOOSE i \in 1..Len(seq) : seq[i] = k

Faults == {"none", "dl_unreadable", "cat_missing", "val_unreadable",
           "legend_unreadable", "series_raises"}
ReplaceModes == {"raise", "keep", "reset_off", "reset_on"}

ProfileDl(P, v) == [k \in DlKeySet |-> IF Nulled(P, KeyIdx(DlKeys, k)) THEN None ELSE Some(v)]
ProfileAxis(P, hasTitle, v) ==
    [k \in AxisKeySet |->
        IF k = "has_title" THEN Some(hasTitle)
        ELSE IF k = "title_text" THEN (IF hasTitle THEN Some(v) ELSE None)
        ELSE IF Nulled(P, KeyIdx(AxisLoopKeys \o TickKeys, k)) THEN None ELSE Some(v)]
ProfileLegend(P) ==
    [k \in Range(LegendKeys) |-> IF Nulled(P, KeyIdx(LegendKeys, k)) THEN None ELSE Some(1)]

\* a live chart with n series
MkChart(P, F, hasTitle, hasLegend, mode, n, R) ==
    [series |-> [i \in 1..n |->
                    [dl |-> ProfileDl(P, i),
                     dlReadable |-> ~(F = "dl_unreadable" /\ i = 1),
                     f |-> SeriesFormulas(i, GoodRef(i + 1))]],
     seriesRaises |-> F = "series_raises",
     axes |-> [name \in Range(AxisNames) |->
                    [exists |-> ~(F = "cat_missing" /\ name = "category_axis"),
                     readable |-> ~(F = "val_unreadable" /\ name = "value_axis"),
                     p |-> ProfileAxis(P, hasTitle, IF name = "category_axis" THEN 1 ELSE 2)]],
     has_legend |-> hasLegend,
     legend |-> IF hasLegend THEN ProfileLegend(P) ELSE NoLegend,
     legendReadable |-> F # "legend_unreadable",
     chart_style |-> Some(2),
     has_title |-> FALSE,
     title |-> None,
     replaceMode |-> mode,
     rejects |-> R,
     data |-> None,
     blob |-> [st |-> "ok", wb |-> OldWorkbook],
     saveRaises |-> FALSE]

\* the setters of series 1, of both axes, of the legend and of the chart
AllSetters ==
    {<<"dl", 1, k>> : k \in DlKeySet}
    \cup {<<a, 0, k>> : a \in Range(AxisNames), k \in AxisKeySet}
    \cup {<<"legend", 0, k>> : k \in Range(LegendKeys)}
    \cup {<<"chart", 0, k>> : k \in {"has_legend", "chart_style", "has_title", "title"}}

SeriesCounts == 1..MaxSeries

NoModel == MkCm(None, "none", 0, 0, "none", FALSE)
NoChart == MkChart("empty", "none", FALSE, FALSE, "keep", 0, {})
NoRes == [st |-> "none", ret |-> FALSE]

IdleChart ==
    /\ self = NoModel
    /\ chart = NoChart
    /\ chart0 = NoChart
    /\ res = NoRes
    /\ log = <<>>
    /\ cpc = "idle"

NoLast == [uwoCalled |-> FALSE]

IdleUpdate ==
    /\ slides = <<>>
    /\ prs = <<>>
    /\ prs0 = <<>>
    /\ strict = FALSE
    /\ slide_i = 0
    /\ filled = <<>>
    /\ fpos = 0
    /\ calls = <<>>
    /\ last = NoLast
    /\ uret = <<>>
    /\ upc = "idle"

IdlePure ==
    /\ inp = <<>>
    /\ out = <<>>
    /\ ppc = "idle"

IdleRange ==
    /\ ref = [shape |-> "empty", sheet |-> SheetS1, quoted |-> FALSE, abs |-> FALSE,
              c1 |-> 1, r1 |-> 1, c2 |-> 1, r2 |-> 1]
    /\ ftext = <<>>
    /\ pf = PfNone
    /\ vals = <<>>
    /\ wb = OldWorkbook
    /\ wb0 = OldWorkbook
    /\ wr = "none"
    /\ rpc = "idle"

\* ------------------------------------------------------------------------
\* Specification SpecRange: parse_formula and write_range on bounded inputs
\* ------------------------------------------------------------------------
InitRange ==
    /\ IdleUpdate
    /\ IdlePure
    /\ ref \in Refs
    /\ ftext = FmtRef(ref)
    /\ pf = PfNone
    /\ vals \in {ValueList(n) : n \in 0..MaxVals}
    /\ wb = OldWorkbook
    /\ wb0 = OldWorkbook
    /\ wr = "none"
    /\ rpc = "init"
    /\ IdleChart

ParseFormula ==
    /\ rpc = "init"
    /\ pf' = parse_formula(ftext)
    /\ rpc' = "parsed"
    /\ UNCHANGED <<ref, ftext, vals, wb, wb0, wr>>
    /\ UNCHANGED chartVars
    /\ UNCHANGED updVars
    /\ UNCHANGED pureVars

WriteRange ==
    /\ rpc = "parsed"
    /\ LET r == write_range(wb, ftext, vals)
       IN  /\ wb' = r.wb
           /\ wr' = r.st
    /\ rpc' = "written"
    /\ UNCHANGED <<ref, ftext, pf, vals, wb0>>
    /\ UNCHANGED chartVars
    /\ UNCHANGED updVars
    /\ UNCHANGED pureVars

NextRange == ParseFormula \/ WriteRange

SpecRange == InitRange /\ [][NextRange]_vars

\* C8: parse_formula expands a range reference into the cells of the
\* rectangle [min(r1,r2)..max(r1,r2)] x [min(c1,c2)..max(c1,c2)] in row-major
\* order, the same whichever corner is written first; a single-cell reference
\* gives exactly that cell; '$' signs are ignored and the sheet name is the
\* text before the first '!' without its surrounding single quotes.
ParseFormulaRowMajor ==
    rpc # "init" =>
        /\ ref.shape = "range" =>
              LET rlo == Min(ref.r1, ref.r2)
                  rhi == Max(ref.r1, ref.r2)
                  clo == Min(ref.c1, ref.c2)
                  chi == Max(ref.c1, ref.c2)
                  w == chi - clo + 1
                  swapped == [ref EXCEPT !.c1 = ref.c2, !.c2 = ref.c1,
                                         !.r1 = ref.r2, !.r2 = ref.r1]
              IN  /\ pf.st = "ok"
                  /\ pf.sheet = ref.sheet
                  /\ Len(pf.cells) = w * (rhi - rlo + 1)
                  /\ \A r \in rlo..rhi : \A c \in clo..chi :
                        pf.cells[(r - rlo) * w + (c - clo) + 1] = CellName(c, r)
                  /\ parse_formula(FmtRef(swapped)).cells = pf.cells
        /\ ref.shape \in {"single", "padded"} =>
              /\ pf.st = "ok"
              /\ pf.sheet = ref.sheet
              /\ pf.cells = <<CellName(ref.c1, ref.r1)>>

\* D2:B2 written with '$' signs and a quoted sheet name parses to B2, C2, D2
ParseFormulaRowMajorWitness ==
    /\ rpc = "parsed"
    /\ ref.shape = "range" /\ ref.abs /\ ref.quoted
    /\ ref.c1 = 4 /\ ref.r1 = 2 /\ ref.c2 = 2 /\ ref.r2 = 2
    /\ pf.cells = <<<<"B", "2">>, <<"C", "2">>, <<"D", "2">>>>

\* C7: write_range writes exactly the cells C[0..k-1], k = min(len(C), len(V)),
\* cell C[i] receiving V[i]; the cells C[k..] and every other cell keep their
\* previous values and the values V[k..] are dropped without error.
WriteRangeMinLength ==
    (/\ rpc = "written"
     /\ pf.st = "ok"
     /\ pf.sheet \in DOMAIN wb0
     /\ \A i \in 1..Len(pf.cells) : CoordValid(pf.cells[i])) =>
        LET C == pf.cells
            k == Min(Len(C), Len(vals))
            before == wb0[pf.sheet]
            after == wb[pf.sheet]
        IN  /\ wr = "ok"
            /\ \A i \in 1..k : C[i] \in DOMAIN after /\ after[C[i]] = vals[i]
            /\ DOMAIN after = (DOMAIN before) \cup {C[i] : i \in 1..k}
            /\ \A c \in DOMAIN after :
                  (\A i \in 1..k : C[i] # c) => after[c] = before[c]
            /\ \A s \in (DOMAIN wb0) \ {pf.sheet} : wb[s] = wb0[s]
            /\ DOMAIN wb = DOMAIN wb0

\* 5 cells and 3 values: the first 3 cells are written, the last 2 keep "old"
WriteRangeMinLengthWitness ==
    /\ rpc = "written"
    /\ pf.st = "ok" /\ pf.sheet = SheetS1
    /\ Len(pf.cells) = 5 /\ Len(vals) = 3
    /\ wb[SheetS1][pf.cells[3]] = "v3"
    /\ wb[SheetS1][pf.cells[4]] = "old"
    /\ wb[SheetS1][pf.cells[5]] = "old"

\* ------------------------------------------------------------------------
\* Specification SpecApply: apply_to_existing_chart on one live chart
\* ------------------------------------------------------------------------
\* every formatting profile, fault and replace mode with an engine that accepts
\* every assignment; model data the chart-data container refuses; and every
\* single refused setter on a fully formatted chart
InitApply ==
    /\ IdleRange
    /\ IdleUpdate
    /\ IdlePure
    /\ \/ \E P \in Profiles, F \in Faults, ht \in BOOLEAN, hl \in BOOLEAN,
            mode \in ReplaceModes, n \in SeriesCounts, mn \in SeriesCounts,
            kind \in DataKinds, ov \in Overrides :
            /\ chart = MkChart(P, F, ht, hl, mode, n, {})
            /\ self = MkCm(None, kind, mn, 2, ov, FALSE)
       \/ \E mode \in ReplaceModes, kind \in DataKinds, ov \in Overrides :
            /\ chart = MkChart("full", "none", TRUE, TRUE, mode, 1, {})
            /\ self = MkCm(None, kind, 1, 2, ov, TRUE)
       \/ \E R \in AllSetters, ht \in BOOLEAN, hl \in BOOLEAN,
            mode \in ReplaceModes, ov \in Overrides :
            /\ chart = MkChart("full", "none", ht, hl, mode, 1, {R})
            /\ self = MkCm(None, "category", 1, 2, ov, FALSE)
    /\ chart0 = chart
    /\ res = NoRes
    /\ log = <<>>
    /\ cpc = "init"

ApplyToExistingChart ==
    /\ cpc = "init"
    /\ LET r == apply_to_existing_chart(self, chart)
       IN  /\ chart' = r.chart
           /\ log' = r.log
           /\ res' = [st |-> r.st, ret |-> FALSE]
    /\ cpc' = "applied"
    /\ UNCHANGED <<self, chart0>>
    /\ UNCHANGED rangeVars
    /\ UNCHANGED updVars
    /\ UNCHANGED pureVars

NextApply == ApplyToExistingChart

SpecApply == InitApply /\ [][NextApply]_vars

\* the data replacement of the call ran and returned
ReplaceSucceeded ==
    /\ cpc = "applied"
    /\ res.st = "ok"
    /\ ActiveBlock(self) # "none"
    /\ chart0.replaceMode # "raise"

\* the data replacement of the call ran and raised
ReplaceRaised ==
    /\ cpc = "applied"
    /\ res.st = "ok"
    /\ ActiveBlock(self) # "none"
    /\ chart0.replaceMode = "raise"

\* C1: when replace_data succeeds (even if it resets all formatting), the
\* series count is unchanged, the engine accepts every assignment and the
\* model's has_legend is None, every non-null property the snapshot captured
\* has its pre-call value after the call: per series the seven data-label
\* properties, per axis the title, ticks, scale, units, order, gridlines,
\* tick-label format and visibility, and the legend's presence and placement.
FormattingPreserved ==
    (/\ ReplaceSucceeded
     /\ ActiveSeriesCount(self) = Len(chart0.series)
     /\ chart0.rejects = {}
     /\ self.has_legend = None) =>
        /\ Len(chart.series) = Len(chart0.series)
        /\ ~chart0.seriesRaises =>
             \A i \in 1..Len(chart0.series) : \A k \in DlKeySet :
                (chart0.series[i].dlReadable /\ chart0.series[i].dl[k] # None)
                    => chart.series[i].dl[k] = chart0.series[i].dl[k]
        /\ \A name \in Range(AxisNames) : \A k \in AxisKeySet :
                (/\ chart0.axes[name].exists
                 /\ chart0.axes[name].readable
                 /\ chart0.axes[name].p[k] # None)
                    => chart.axes[name].p[k] = chart0.axes[name].p[k]
        /\ chart0.legendReadable =>
             /\ chart.has_legend = chart0.has_legend
             /\ \A k \in Range(LegendKeys) :
                    (chart0.has_legend /\ chart0.legend[k] # None)
                        => chart.legend[k] = chart0.legend[k]

\* a fully formatted two-series chart without legend whose replacement reset
\* everything and switched the legend on, updated by a model with a style
FormattingPreservedWitness ==
    /\ ReplaceSucceeded
    /\ chart0.rejects = {} /\ self.has_legend = None /\ self.style # None
    /\ chart0.replaceMode = "reset_on"
    /\ Len(chart0.series) = 2 /\ ActiveSeriesCount(self) = 2
    /\ ~chart0.has_legend /\ ~chart.has_legend
    /\ chart0.series[2].dl["position"] = Some(2)
    /\ chart.series[2].dl["position"] = Some(2)
    /\ chart.series[1].dl["number_format"] = Some(1)
    /\ chart.axes["value_axis"].p["title_text"] = Some(2)
    /\ chart.axes["category_axis"].p["tick_num_fmt"] = Some(1)
    /\ chart.chart_style = self.style

\* C4: when replace_data raises, no data-label, axis or legend restore is
\* attempted and the chart is left exactly in its pre-call state, for every
\* model, including models whose style, has_legend or title is set.
ReplaceFailureIsNoOp ==
    ReplaceRaised =>
        /\ \A j \in 1..Len(log) :
              log[j].key \notin {"restore_dlbls", "restore_axes", "restore_legend"}
        /\ chart = chart0

\* number of assignments of the chart property key the call made
ChartSets(key) ==
    Cardinality({j \in 1..Len(log) :
                    log[j].op = "set" /\ log[j].dom = "chart" /\ log[j].key = key})
LogHasCall(key) == \E j \in 1..Len(log) : log[j].op = "call" /\ log[j].key = key
OneIf(b) == IF b THEN 1 ELSE 0
\* the assignments of has_legend that _restore_legend made
RestoreLegendSets == OneIf(LogHasCall("restore_legend") /\ chart0.legendReadable)

BlobStates == {"ok", "missing", "corrupt"}

\* a live chart whose series badIdx refers to its values by a reference of the
\* given shape and sheet
WbChart(shape, sheet, badIdx, n, blobSt, saveRaises, seriesRaises) ==
    LET base == MkChart("full", "none", TRUE, TRUE, "keep", n, {})
        ser(i) == [base.series[i] EXCEPT !.f = SeriesFormulas(i,
                      IF i = badIdx
                      THEN [GoodRef(i + 1) EXCEPT !.shape = shape, !.sheet = sheet]
                      ELSE GoodRef(i + 1))]
    IN  [base EXCEPT
            !.series = [i \in 1..n |-> ser(i)],
            !.blob = [st |-> blobSt, wb |-> OldWorkbook],
            !.saveRaises = saveRaises,
            !.seriesRaises = seriesRaises]

InitWorkbook ==
    /\ IdleRange
    /\ IdleUpdate
    /\ IdlePure
    /\ \E shape \in RefShapes, sheet \in {SheetS1, SheetD2}, badIdx \in SeriesCounts,
         n \in 0..MaxSeries, blobSt \in BlobStates, sv \in BOOLEAN, sr \in BOOLEAN,
         kind \in DataKinds, mn \in SeriesCounts, m \in 1..MaxVals, ov \in {"none", "all"} :
         /\ chart = WbChart(shape, sheet, badIdx, n, blobSt, sv, sr)
         /\ self = MkCm(None, kind, mn, m, ov, FALSE)
    /\ chart0 = chart
    /\ res = NoRes
    /\ log = <<>>
    /\ cpc = "init"

UpdateWorkbookOnly ==
    /\ cpc = "init"
    /\ LET r == update_workbook_only(self, chart)
       IN  /\ chart' = r.chart
           /\ log' = r.log
           /\ res' = [st |-> r.st, ret |-> r.ret]
    /\ cpc' = "updated"
    /\ UNCHANGED <<self, chart0>>
    /\ UNCHANGED rangeVars
    /\ UNCHANGED updVars
    /\ UNCHANGED pureVars

NextWorkbook == UpdateWorkbookOnly

SpecWorkbook == InitWorkbook /\ [][NextWorkbook]_vars

\* the references the update reads, in the order it writes them
JobRefFails(w, f) ==
    LET p == parse_formula(f)
    IN  p.st # "ok" \/ p.sheet \notin DOMAIN w

\* C5: update_workbook_only returns True only if load, parse of every series
\* reference, write and save all completed; a failure at load, at parse (a
\* reference that cannot be parsed, or that names a sheet absent from the
\* workbook) or at save makes it return False, and whenever it returns False
\* the embedded workbook blob and the chart are unmodified.
WorkbookUpdateAllOrNothing ==
    (cpc = "updated" /\ res.st = "ok") =>
        /\ (\/ chart0.blob.st # "ok"
            \/ chart0.saveRaises
            \/ \E j \in 1..Len(WriteJobs(self, chart0)) :
                  JobRefFails(chart0.blob.wb, WriteJobs(self, chart0)[j].f))
              => ~res.ret
        /\ ~res.ret => chart = chart0

\* ========================================================================
\* PresentationModel.update_charts_in_presentation
\* ========================================================================
MaxShapes == 2
MaxSlides == 2

\* a shape of a model slide; isChart is isinstance(sh, ChartModel)
ModelShape(isChart, cm) == [isChart |-> isChart, cm |-> cm]
\* a shape of a live slide; chartOK tells whether reading gframe.chart succeeds
LiveShape(name, has_chart, chartOK, ch) ==
    [name |-> name, has_chart |-> has_chart, chartOK |-> chartOK, chart |-> ch]

\* "max_idx = min(len(self.slides), len(prs.slides))"
max_idx(ms, ps) == Min(Len(ms), Len(ps))

\* "[sh for sh in model_slide.shapes if isinstance(sh, ChartModel)]", as positions
RECURSIVE model_charts_from(_, _)
model_charts_from(shapes, k) ==
    IF k > Len(shapes) THEN <<>>
    ELSE (IF shapes[k].isChart THEN <<k>> ELSE <<>>) \o model_charts_from(shapes, k + 1)
model_charts(shapes) == model_charts_from(shapes, 1)

RECURSIVE slide_chart_shapes_from(_, _)
slide_chart_shapes_from(shapes, k) ==
    IF k > Len(shapes) THEN <<>>
    ELSE (IF shapes[k].has_chart THEN <<k>> ELSE <<>>)
         \o slide_chart_shapes_from(shapes, k + 1)

\* every shape of the slide is taken, chart or not
slide_chart_shapes_all(shapes) == [k \in 1..Len(shapes) |-> k]

\* "[sh for sh in pptx_slide.shapes if getattr(sh, 'has_chart', False)]", as positions
slide_chart_shapes(shapes) == slide_chart_shapes_from(shapes, 1)

\* truth value of a name: None and the empty string are false
Truthy(name) == name # None /\ Get(name) # ""

\* "{name: g for g in slide_chart_shapes if name}": a later shape replaces an
\* earlier one of the same name
by_name(shapes, scs) ==
    LET names == {shapes[scs[k]].name : k \in 1..Len(scs)}
    IN  [n \in {x \in names : Truthy(x)} |->
            scs[CHOOSE k \in 1..Len(scs) :
                    /\ shapes[scs[k]].name = n
                    /\ \A j \in (k + 1)..Len(scs) : shapes[scs[j]].name # n]]

\* dict.get(key): None when the key is absent
DictGet(dict, key) == IF key \in DOMAIN dict THEN Some(dict[key]) ELSE None

\* the first loop: one entry (cm, g or None) per model chart
pairs(mshapes, mcs, bn) ==
    [k \in 1..Len(mcs) |-> [m |-> mcs[k], g |-> DictGet(bn, mshapes[mcs[k]].cm.name)]]

used(ps) == {Get(ps[k].g) : k \in {j \in 1..Len(ps) : ps[j].g # None}}

\* the shapes paired by name are offered again
order_shapes_ignoreUsed(scs, u) == scs

\* "[g for g in slide_chart_shapes if id(g) not in used]"
order_shapes(scs, u) == SelectSeq(scs, LAMBDA g : g \notin u)

\* the second loop: "for cm, g in pairs: if g is None: ... filled.append((cm, g))"
RECURSIVE fill_loop(_, _, _, _)
fill_loop(ps, os, k, oi) ==
    IF k > Len(ps) THEN <<>>
    ELSE IF ps[k].g # None
    THEN <<[m |-> ps[k].m, g |-> Get(ps[k].g)]>> \o fill_loop(ps, os, k + 1, oi)
    ELSE IF oi < Len(os)
    THEN <<[m |-> ps[k].m, g |-> os[oi + 1]]>> \o fill_loop(ps, os, k + 1, oi + 1)
    ELSE fill_loop(ps, os, k + 1, oi)

FillPairs(ps, scs) == fill_loop(ps, order_shapes(scs, used(ps)), 1, 0)
PairWith(mshapes, mcs, lshapes, scs) == FillPairs(pairs(mshapes, mcs, by_name(lshapes, scs)), scs)
\* lines 74-109: the pairs of one slide, as (position in the model slide,
\* position in the live slide)
PairSlide(mshapes, lshapes) ==
    PairWith(mshapes, model_charts(mshapes), lshapes, slide_chart_shapes(lshapes))

\* "if not ok"
NeedsFallback_always(ok) == TRUE
NeedsFallback(ok) == ~ok

\* "except Exception: pass": nothing raised inside the try block leaves it
Propagates_raised(r) == r.raised
Propagates(r) == FALSE

\* the outcome of one pair: what was called, in order, and the chart after
PairOutcome(access, seq, uwo, apply, mid, uwoLog, after, raised) ==
    [access |-> access, seq |-> seq, uwo |-> uwo, apply |-> apply, mid |-> mid,
     uwoLog |-> uwoLog, after |-> after, raised |-> raised]

ApplyDone(a, seq, uwo, mid, uwoLog) ==
    PairOutcome(TRUE, Append(seq, "apply"), uwo, a.st, mid, uwoLog, a.chart,
                a.st = "raise")
\* "cm.apply_to_existing_chart(gframe.chart)"
ApplyStep(cm, ch, seq, uwo, mid, uwoLog) ==
    ApplyDone(apply_to_existing_chart(cm, ch), seq, uwo, mid, uwoLog)

\* "ok = cm.update_workbook_only(gframe.chart); if not ok: ..."
AfterWorkbookUpdate(cm, u) ==
    IF u.st = "raise"
    THEN PairOutcome(TRUE, <<"uwo">>, "raise", "none", Some(u.chart), u.log, u.chart, TRUE)
    ELSE IF NeedsFallback(u.ret)
    THEN ApplyStep(cm, u.chart, <<"uwo">>, IF u.ret THEN "true" ELSE "false",
                   Some(u.chart), u.log)
    ELSE PairOutcome(TRUE, <<"uwo">>, IF u.ret THEN "true" ELSE "false", "none",
                     Some(u.chart), u.log, u.chart, FALSE)

\* the try block of lines 112-118 for one pair
UpdatePair(cm, gframe, isStrict) ==
    IF ~gframe.chartOK
    THEN PairOutcome(FALSE, <<>>, "none", "none", None, <<>>, gframe.chart, TRUE)
    ELSE IF isStrict
    THEN AfterWorkbookUpdate(cm, update_workbook_only(cm, gframe.chart))
    ELSE ApplyStep(cm, gframe.chart, <<>>, "none", None, <<>>)

\* ------------------------------------------------------------------------
\* Bounded inputs: model slides and live documents
\* ------------------------------------------------------------------------
SeqsUpTo(S, n) == UNION {[1..k -> S] : k \in 0..n}

TextBox == ModelShape(FALSE, NoModel)
Picture == LiveShape(Some("B"), FALSE, FALSE, NoChart)

\* a category model of one series of two values
NamedModel(name, ov, cdRaises) == ModelShape(TRUE, MkCm(name, "category", 1, 2, ov, cdRaises))

\* live charts by the way an update of them ends
LiveKinds == {"good", "noblob", "badrow", "series_raises", "replace_raises", "nochart"}
KindChart(kind) ==
    CASE kind = "noblob" -> WbChart("range", SheetS1, 1, 1, "missing", FALSE, FALSE)
      [] kind = "badrow" -> WbChart("badrow", SheetS1, 1, 1, "ok", FALSE, FALSE)
      [] kind = "series_raises" -> WbChart("range", SheetS1, 1, 1, "ok", FALSE, TRUE)
      [] kind = "replace_raises" ->
            [WbChart("range", SheetS1, 1, 1, "ok", FALSE, FALSE) EXCEPT !.replaceMode = "raise"]
      [] OTHER -> WbChart("range", SheetS1, 1, 1, "ok", FALSE, FALSE)
LiveChart(name, kind) == LiveShape(name, TRUE, kind # "nochart", KindChart(kind))

ModelNames == {None, Some(""), Some("A"), Some("B")}
LiveNames == {Some(""), Some("B"), Some("C")}
ModelShapes == {NamedModel(n, "none", FALSE) : n \in ModelNames} \cup {TextBox}
LiveShapes == {LiveChart(n, "good") : n \in LiveNames} \cup {Picture}

\* slide s of a document whose slides hold a picture, two charts of kinds k1 and
\* k2 (swapped on even slides) and one more chart
KindSlide(s, k1, k2) ==
    << Picture,
       LiveChart(Some(""), IF s % 2 = 1 THEN k1 ELSE k2),
       LiveChart(Some(""), IF s % 2 = 1 THEN k2 ELSE k1),
       LiveChart(Some("C"), "good") >>
VariantSlide(ov, cdRaises) ==
    << TextBox, NamedModel(None, ov, cdRaises), NamedModel(None, "all", FALSE) >>

\* ------------------------------------------------------------------------
\* Specification Spec: update_charts_in_presentation, one step per slide and
\* per pair
\* ------------------------------------------------------------------------
Init ==
    /\ IdleRange
    /\ IdleChart
    /\ IdlePure
    /\ strict \in BOOLEAN
    /\ \/ \E ms \in SeqsUpTo(ModelShapes, MaxShapes), ls \in SeqsUpTo(LiveShapes, MaxShapes) :
            /\ slides = <<ms>>
            /\ prs = <<ls>>
       \/ \E k1 \in LiveKinds, k2 \in LiveKinds, ov \in {"none", "all"}, cdRaises \in BOOLEAN,
             nm \in 0..MaxSlides, nd \in 0..MaxSlides :
            /\ slides = [s \in 1..nm |-> VariantSlide(ov, cdRaises)]
            /\ prs = [s \in 1..nd |-> KindSlide(s, k1, k2)]
    /\ prs0 = prs
    /\ slide_i = 1
    /\ filled = <<>>
    /\ fpos = 0
    /\ calls = <<>>
    /\ last = NoLast
    /\ uret = <<>>
    /\ upc = "slide"

\* lines 70-109: the next slide pair is taken and its charts are paired
BeginSlide ==
    /\ upc = "slide"
    /\ slide_i <= max_idx(slides, prs)
    /\ filled' = PairSlide(slides[slide_i], prs[slide_i])
    /\ fpos' = 1
    /\ upc' = "pairs"
    /\ UNCHANGED <<slides, prs, prs0, strict, slide_i, calls, last, uret>>
    /\ UNCHANGED rangeVars
    /\ UNCHANGED chartVars
    /\ UNCHANGED pureVars

PairDone(pr, cm, before, r) ==
    /\ prs' = [prs EXCEPT ![slide_i][pr.g].chart = r.after]
    /\ calls' = Append(calls, [slide |-> slide_i, m |-> pr.m, g |-> pr.g,
                               access |-> r.access, seq |-> r.seq, uwo |-> r.uwo,
                               apply |-> r.apply, raised |-> r.raised])
    /\ last' = [uwoCalled |-> r.uwo # "none", cm |-> cm, before |-> before,
                mid |-> r.mid, uwoLog |-> r.uwoLog, uwo |-> r.uwo, apply |-> r.apply,
                after |-> r.after]
    /\ IF Propagates(r)
       THEN upc' = "raised" /\ fpos' = fpos
       ELSE upc' = "pairs" /\ fpos' = fpos + 1

ProcessPair_renamesModel ==
    /\ upc = "pairs"
    /\ fpos <= Len(filled)
    /\ PairDone(filled[fpos], slides[slide_i][filled[fpos].m].cm,
                prs[slide_i][filled[fpos].g].chart,
                UpdatePair(slides[slide_i][filled[fpos].m].cm,
                           prs[slide_i][filled[fpos].g], strict))
    /\ slides' = [slides EXCEPT ![slide_i][filled[fpos].m].cm.name = prs[slide_i][filled[fpos].g].name]
    /\ UNCHANGED <<prs0, strict, slide_i, filled, uret>>
    /\ UNCHANGED rangeVars
    /\ UNCHANGED chartVars
    /\ UNCHANGED pureVars
\* lines 111-120: one iteration of "for cm, gframe in filled"
ProcessPair ==
    /\ upc = "pairs"
    /\ fpos <= Len(filled)
    /\ PairDone(filled[fpos], slides[slide_i][filled[fpos].m].cm,
                prs[slide_i][filled[fpos].g].chart,
                UpdatePair(slides[slide_i][filled[fpos].m].cm,
                           prs[slide_i][filled[fpos].g], strict))
    /\ UNCHANGED <<slides, prs0, strict, slide_i, filled, uret>>
    /\ UNCHANGED rangeVars
    /\ UNCHANGED chartVars
    /\ UNCHANGED pureVars

\* the pairs of the slide are exhausted: the slide loop goes on
EndSlide ==
    /\ upc = "pairs"
    /\ fpos > Len(filled)
    /\ slide_i' = slide_i + 1
    /\ filled' = <<>>
    /\ fpos' = 0
    /\ upc' = "slide"
    /\ UNCHANGED <<slides, prs, prs0, strict, calls, last, uret>>
    /\ UNCHANGED rangeVars
    /\ UNCHANGED chartVars
    /\ UNCHANGED pureVars

\* line 122: "return prs"
Return ==
    /\ upc = "slide"
    /\ slide_i > max_idx(slides, prs)
    /\ uret' = prs
    /\ upc' = "done"
    /\ UNCHANGED <<slides, prs, prs0, strict, slide_i, filled, fpos, calls, last>>
    /\ UNCHANGED rangeVars
    /\ UNCHANGED chartVars
    /\ UNCHANGED pureVars

Next == BeginSlide \/ ProcessPair \/ EndSlide \/ Return

Spec == Init /\ [][Next]_vars

\* ------------------------------------------------------------------------
\* Pairing, stated without the loops
\* ------------------------------------------------------------------------
\* a name that takes part in name pairing; emptyCounts tells whether the empty
\* string does
NameCounts(name, emptyCounts) == name # None /\ (emptyCounts \/ Get(name) # "")

Rank(S, x) == Cardinality({y \in S : y < x}) + 1

\* the pairs of (model slide ms, live slide ls) by the rule "name first, then
\* order": a model chart whose name counts and is borne by a live chart shape
\* gets the last such shape; the others get the live chart shapes nobody got by
\* name, first to first; the rest get nothing
RulePairs(ms, ls, emptyCounts) ==
    LET MC == {k \in 1..Len(ms) : ms[k].isChart}
        LC == {j \in 1..Len(ls) : ls[j].has_chart}
        Bearers(k) == {j \in LC : ls[j].name = ms[k].cm.name}
        ByName == {k \in MC : NameCounts(ms[k].cm.name, emptyCounts) /\ Bearers(k) # {}}
        Target(k) == CHOOSE j \in Bearers(k) : \A j2 \in Bearers(k) : j2 <= j
        RestM == MC \ ByName
        RestL == LC \ {Target(k) : k \in ByName}
    IN  {[m |-> k, g |-> Target(k)] : k \in ByName}
        \cup {pr \in [m : RestM, g : RestL] : Rank(RestM, pr.m) = Rank(RestL, pr.g)}

InModelOrder(f) == \A a, b \in 1..Len(f) : a < b => f[a].m < f[b].m
PairSet(f) == {f[k] : k \in 1..Len(f)}

\* C2 as stated: every non-null name, the empty string included, pairs by name
PairingByNonNullName ==
    upc = "pairs" =>
        /\ PairSet(filled) = RulePairs(slides[slide_i], prs[slide_i], TRUE)
        /\ InModelOrder(filled)

\* C2: per slide pair, a model chart whose non-null, non-empty name is borne by
\* a live chart shape is paired with that shape (the last one in document order
\* when several bear the name); the model charts not paired by name are paired,
\* in model order, with the live chart shapes not paired by name, in document
\* order; model charts left over are dropped.  Model charts A, B against live
\* charts B, C give (B, live B) and (A, live C).
PairingByName ==
    upc = "pairs" =>
        /\ PairSet(filled) = RulePairs(slides[slide_i], prs[slide_i], FALSE)
        /\ InModelOrder(filled)
        /\ Len(filled) = Cardinality(PairSet(filled))

PairingByNameWitness ==
    /\ upc = "pairs"
    /\ Len(slides[slide_i]) = 2 /\ Len(prs[slide_i]) = 2
    /\ slides[slide_i][1].isChart /\ slides[slide_i][1].cm.name = Some("A")
    /\ slides[slide_i][2].isChart /\ slides[slide_i][2].cm.name = Some("B")
    /\ prs[slide_i][1].has_chart /\ prs[slide_i][1].name = Some("B")
    /\ prs[slide_i][2].has_chart /\ prs[slide_i][2].name = Some("C")
    /\ filled = << [m |-> 1, g |-> 2], [m |-> 2, g |-> 1] >>

\* ------------------------------------------------------------------------
\* Update-path selection
\* ------------------------------------------------------------------------
\* the pairs of all slide pairs, in the order the loops reach them
RECURSIVE AllPairsFrom(_)
AllPairsFrom(s) ==
    IF s > max_idx(slides, prs0) THEN <<>>
    ELSE [k \in 1..Len(PairSlide(slides[s], prs0[s])) |->
            [slide |-> s, m |-> PairSlide(slides[s], prs0[s])[k].m,
             g |-> PairSlide(slides[s], prs0[s])[k].g]]
         \o AllPairsFrom(s + 1)
AllPairs == AllPairsFrom(1)
ProcessedPairs == [k \in 1..Len(calls) |->
                      [slide |-> calls[k].slide, m |-> calls[k].m, g |-> calls[k].g]]
IsPrefix(a, b) == Len(a) <= Len(b) /\ \A k \in 1..Len(a) : a[k] = b[k]

\* the calls one pair may receive
PathOf(c) ==
    /\ ~strict => c.seq = <<"apply">> /\ c.uwo = "none"
    /\ strict => /\ c.seq \in {<<"uwo">>, <<"uwo", "apply">>}
                 /\ (c.seq = <<"uwo", "apply">>) <=> (c.uwo = "false")

\* C3 as stated: every pair, readable or not, receives the calls of its path
UpdatePathSelectionEveryPair ==
    /\ IsPrefix(ProcessedPairs, AllPairs)
    /\ \A k \in 1..Len(calls) : PathOf(calls[k])

\* C3: for every pair whose live chart can be read from its shape: with
\* strict=False update_workbook_only is never called and apply_to_existing_chart
\* is called exactly once; with strict=True update_workbook_only is called
\* first and apply_to_existing_chart afterwards iff it returned False.  A pair
\* whose chart cannot be read receives no call.  Every pair is processed once,
\* so a fallback on one chart causes no extra call on a sibling.
UpdatePathSelection ==
    /\ IsPrefix(ProcessedPairs, AllPairs)
    /\ \A k \in 1..Len(calls) :
          IF calls[k].access THEN PathOf(calls[k])
          ELSE calls[k].seq = <<>> /\ calls[k].uwo = "none" /\ calls[k].apply = "none"

UpdatePathSelectionWitness ==
    /\ strict
    /\ \E a, b \in 1..Len(calls) :
          /\ a # b
          /\ calls[a].slide = calls[b].slide
          /\ calls[a].uwo = "false" /\ calls[a].seq = <<"uwo", "apply">>
          /\ calls[b].uwo = "true" /\ calls[b].seq = <<"uwo">>

\* ------------------------------------------------------------------------
\* The workbook-only update and the chart's formatting
\* ------------------------------------------------------------------------
SameButBlob(a, b) == [a EXCEPT !.blob = b.blob] = b

\* C6: update_workbook_only leaves everything of the chart but the embedded
\* workbook as it was, on every path; the only engine call it makes is at most
\* one update_from_xlsx_blob; under strict=True a chart whose workbook update
\* returned True receives no apply_to_existing_chart call and keeps its style,
\* has_legend and title.
WorkbookOnlyKeepsFormatting ==
    last.uwoCalled =>
        /\ SameButBlob(Get(last.mid), last.before)
        /\ Len(last.uwoLog) <= 1
        /\ \A k \in 1..Len(last.uwoLog) :
              last.uwoLog[k].op = "call" /\ last.uwoLog[k].key = "update_from_xlsx_blob"
        /\ last.uwo = "true" =>
              /\ last.apply = "none"
              /\ SameButBlob(last.after, last.before)

WorkbookOnlyKeepsFormattingWitness ==
    /\ last.uwoCalled
    /\ last.uwo = "true"
    /\ last.cm.style = Some(7) /\ last.cm.has_legend = Some(TRUE) /\ last.cm.title = Some("T")
    /\ last.after.chart_style = Some(2) /\ last.after.title = None
    /\ last.after.blob # last.before.blob

\* ------------------------------------------------------------------------
\* Failure isolation
\* ------------------------------------------------------------------------
\* C9: an exception raised by update_workbook_only, by apply_to_existing_chart
\* or by reading the live shape's chart does not leave the call; every later
\* pair of the slide and of the later slides is still processed and the call
\* returns.
FailureIsolation ==
    /\ upc # "raised"
    /\ IsPrefix(ProcessedPairs, AllPairs)
    /\ upc = "done" => ProcessedPairs = AllPairs
    /\ \A k \in 1..Len(calls) :
          calls[k].raised <=> (~calls[k].access \/ calls[k].uwo = "raise"
                               \/ calls[k].apply = "raise")

FailureIsolationWitness ==
    /\ upc = "done"
    /\ \E a, b, c \in 1..Len(calls) :
          /\ a < b /\ b < c
          /\ calls[a].raised
          /\ calls[b].slide = calls[a].slide /\ calls[b].seq # <<>>
          /\ calls[c].slide > calls[a].slide /\ calls[c].seq # <<>>

\* ------------------------------------------------------------------------
\* Slides and shapes the call leaves alone
\* ------------------------------------------------------------------------
PairedShapes(s) ==
    {PairSlide(slides[s], prs0[s])[k].g : k \in 1..Len(PairSlide(slides[s], prs0[s]))}

\* C10: only slide pairs i < min(model slides, document slides) are processed
\* and differing counts raise nothing; no slide and no shape is added or
\* removed; a shape without a chart, a live chart left unpaired and every shape
\* of a slide beyond the minimum are as before; the value returned is prs.
SlidesAndShapesFrame ==
    /\ upc # "raised"
    /\ \A k \in 1..Len(calls) :
          /\ calls[k].slide <= Min(Len(slides), Len(prs0))
          /\ slides[calls[k].slide][calls[k].m].isChart
          /\ prs0[calls[k].slide][calls[k].g].has_chart
    /\ Len(prs) = Len(prs0)
    /\ \A s \in 1..Len(prs0) :
          /\ Len(prs[s]) = Len(prs0[s])
          /\ \A j \in 1..Len(prs0[s]) :
                /\ [prs[s][j] EXCEPT !.chart = prs0[s][j].chart] = prs0[s][j]
                /\ (\/ s > Min(Len(slides), Len(prs0))
                    \/ ~prs0[s][j].has_chart
                    \/ j \notin PairedShapes(s)) => prs[s][j] = prs0[s][j]
    /\ upc = "done" => uret = prs

SlidesAndShapesFrameWitness ==
    /\ upc = "done"
    /\ Len(slides) < Len(prs0)
    /\ prs # prs0
    /\ prs[Len(prs0)] = prs0[Len(prs0)]
    /\ \E j \in 1..Len(prs0[1]) : prs0[1][j].has_chart /\ j \notin PairedShapes(1)
    /\ \E j \in 1..Len(prs0[1]) : ~prs0[1][j].has_chart

\* ========================================================================
\* Points and EMU (utils.py)
\* ========================================================================
\* a length in points is the fraction num/den, den > 0
Pt(num, den) == [num |-> num, den |-> den]
EMU_PER_PT == 12700

\* round(): the nearest integer to a/b, a tie goes to the even one (b > 0)
Floor(a, b) == IF a >= 0 THEN a \div b ELSE -((-a + b - 1) \div b)
Round(a, b) ==
    LET q == Floor(a, b)
        r2 == 2 * (a - q * b)
    IN  IF r2 < b THEN q
        ELSE IF r2 > b THEN q + 1
        ELSE IF q % 2 = 0 THEN q ELSE q + 1

\* int(round(float(pt) * EMU_PER_PT))
pt_to_emu(pt) == Round(pt.num * EMU_PER_PT, pt.den)
\* float(emu) / EMU_PER_PT
emu_to_pt(emu) == Pt(emu, EMU_PER_PT)

\* ========================================================================
\* ChartModel.apply_to_slide
\* ========================================================================
ChartTypes == {"column_clustered", "bar_clustered", "line", "line_markers", "pie",
               "doughnut", "area", "scatter", "bubble"}

\* the XL_CHART_TYPE member of a family
NativeOf(family) ==
    CASE family = "column_clustered" -> "COLUMN_CLUSTERED"
      [] family = "bar_clustered"    -> "BAR_CLUSTERED"
      [] family = "line"             -> "LINE"
      [] family = "line_markers"     -> "LINE_MARKERS"
      [] family = "pie"              -> "PIE"
      [] family = "doughnut"         -> "DOUGHNUT"
      [] family = "area"             -> "AREA"
      [] family = "scatter"          -> "XY_SCATTER"
      [] family = "bubble"           -> "BUBBLE"

\* reverse.get(chart_type): the native chart type, None for any other string
_from_chart_type_default(chart_type) ==
    IF chart_type \in ChartTypes THEN Some(NativeOf(chart_type)) ELSE Some("COLUMN_CLUSTERED")
_from_chart_type(chart_type) ==
    IF chart_type \in ChartTypes THEN Some(NativeOf(chart_type)) ELSE None

\* mapping.get(xl_type, ChartType.COLUMN_CLUSTERED)
ScatterNatives == {"XY_SCATTER", "XY_SCATTER_LINES", "XY_SCATTER_LINES_NO_MARKERS",
                   "XY_SCATTER_SMOOTH", "XY_SCATTER_SMOOTH_NO_MARKERS"}
BubbleNatives == {"BUBBLE", "BUBBLE_THREE_D_EFFECT"}
_to_chart_type_oneScatter(xl_type) ==
    IF xl_type = "XY_SCATTER" THEN "scatter"
    ELSE IF xl_type \in BubbleNatives THEN "bubble"
    ELSE IF \E f \in ChartTypes : NativeOf(f) = xl_type
    THEN CHOOSE f \in ChartTypes : NativeOf(f) = xl_type
    ELSE "column_clustered"
_to_chart_type(xl_type) ==
    IF xl_type \in ScatterNatives THEN "scatter"
    ELSE IF xl_type \in BubbleNatives THEN "bubble"
    ELSE IF \E f \in ChartTypes : NativeOf(f) = xl_type
    THEN CHOOSE f \in ChartTypes : NativeOf(f) = xl_type
    ELSE "column_clustered"

\* the fields of a ChartModel that a shape of a slide adds to its chart fields
ChartShape(cm, chart_type, left_pt, top_pt, width_pt, height_pt) ==
    [type |-> "chart", chart_type |-> chart_type, left_pt |-> left_pt, top_pt |-> top_pt,
     width_pt |-> width_pt, height_pt |-> height_pt, name |-> cm.name, style |-> cm.style,
     has_legend |-> cm.has_legend, title |-> cm.title, category_data |-> cm.category_data,
     xy_data |-> cm.xy_data, bubble_data |-> cm.bubble_data]

\* the chart data object of the populated block: category, then xy, then bubble
to_chart_data(cm) ==
    CASE ActiveBlock(cm) = "category" -> cm.category_data
      [] ActiveBlock(cm) = "xy"       -> cm.xy_data
      [] ActiveBlock(cm) = "bubble"   -> cm.bubble_data
      [] OTHER                        -> None

\* slide.shapes.add_chart: the engine appends a graphic frame with a new chart
\* and names it itself; R holds the setters the engine refuses on this frame
add_chart(xl_type, left, top, width, height, cd, R) ==
    [kind |-> "chart", xl_type |-> xl_type, left |-> left, top |-> top,
     width |-> width, height |-> height, name |-> "Chart",
     chart |-> [MkChart("empty", "none", FALSE, FALSE, "keep", 0, R) EXCEPT !.data = cd]]

\* lines 334-349: style, has_legend and title, each in its own try block
SetChartProps(st, cm) ==
    LET st1 == IF cm.style # None THEN SetChartStyle(st, Get(cm.style)) ELSE st
        st2 == IF cm.has_legend # None THEN SetHasLegend(st1, Get(cm.has_legend)) ELSE st1
    IN  IF cm.title = None THEN st2
        ELSE LET st3 == SetChartHasTitle(st2)
             IN  IF SetOk(st3) THEN SetChartTitleText(st3, Get(cm.title)) ELSE st3

\* what is left of the call once the frame exists: the name, then the chart
AfterAddChart(cm, slide, gframe) ==
    IF Truthy(cm.name) /\ <<"frame", 0, "name">> \in slide.rejects
    THEN [st |-> "raise", shapes |-> Append(slide.shapes, gframe),
          log |-> <<Ev("set", "frame", 0, "name", FALSE)>>]
    ELSE LET named == IF Truthy(cm.name) THEN [gframe EXCEPT !.name = Get(cm.name)]
                      ELSE gframe
             log0 == IF Truthy(cm.name) THEN <<Ev("set", "frame", 0, "name", TRUE)>>
                     ELSE <<>>
             st1 == SetChartProps([chart |-> gframe.chart, log |-> log0], cm)
         IN  [st |-> "ok", shapes |-> Append(slide.shapes, [named EXCEPT !.chart = st1.chart]),
              log |-> st1.log]

\* the whole method: [st |-> "ok" | "raise", shapes, log]
apply_to_slide(cm, slide) ==
    IF _from_chart_type(cm.chart_type) = None \/ to_chart_data(cm) = None
    THEN [st |-> "ok", shapes |-> slide.shapes, log |-> <<>>]
    ELSE AfterAddChart(cm, slide,
            add_chart(Get(_from_chart_type(cm.chart_type)), pt_to_emu(cm.left_pt),
                      pt_to_emu(cm.top_pt), pt_to_emu(cm.width_pt), pt_to_emu(cm.height_pt),
                      to_chart_data(cm), slide.rejects))

\* ------------------------------------------------------------------------
\* Bounded inputs
\* ------------------------------------------------------------------------
\* lengths in eighths of a point: halves of an EMU occur at 1/8 and 3/8
MaxEighths == 3
Lengths == {Pt(n, 8) : n \in 0..MaxEighths} \cup {Pt(72, 1)}
Offsets == {Pt(0, 1), Pt(-1, 8), Pt(3, 8), Pt(10, 1)}
SlideChartTypes == {"column_clustered", "scatter", "bubble", "radar", ""}
FrameSetters == {<<"frame", 0, "name">>} \cup
                {<<"chart", 0, k>> : k \in {"has_legend", "chart_style", "has_title", "title"}}
\* a slide that already holds n shapes
SlideWith(n, R) == [shapes |-> [i \in 1..n |-> [kind |-> "picture"]], rejects |-> R]
\* the engine refuses nothing, one setter, or every setter
RejectSets == {{}, FrameSetters} \cup {{r} : r \in FrameSetters}

InitSlide ==
    /\ IdleRange
    /\ IdleChart
    /\ IdleUpdate
    /\ \E ct \in SlideChartTypes, kind \in DataKinds, ov \in Overrides,
          name \in ModelNames, R \in RejectSets, n \in 0..1,
          l \in Offsets, w \in Lengths :
          inp = [cm |-> ChartShape(MkCm(name, kind, 1, 2, ov, FALSE), ct, l, Pt(10, 1), w, w),
                 slide |-> SlideWith(n, R)]
    /\ out = <<>>
    /\ ppc = "init"

ApplyToSlide ==
    /\ ppc = "init"
    /\ out' = apply_to_slide(inp.cm, inp.slide)
    /\ ppc' = "applied"
    /\ UNCHANGED inp
    /\ UNCHANGED rangeVars
    /\ UNCHANGED chartVars
    /\ UNCHANGED updVars

NextSlide == ApplyToSlide

SpecSlide == InitSlide /\ [][NextSlide]_vars

\* the shapes the call added to the slide
AddedShapes == SubSeq(out.shapes, Len(inp.slide.shapes) + 1, Len(out.shapes))
\* emu is an integer nearest to pt * 12700
NearestEmu(emu, pt) ==
    LET d == emu * pt.den - pt.num * EMU_PER_PT
    IN  2 * d <= pt.den /\ -2 * d <= pt.den
AtModelGeometry(g, cm) ==
    /\ NearestEmu(g.left, cm.left_pt)
    /\ NearestEmu(g.top, cm.top_pt)
    /\ NearestEmu(g.width, cm.width_pt)
    /\ NearestEmu(g.height, cm.height_pt)
HasNativeType(cm) == cm.chart_type \in ChartTypes
HasDataBlock(cm) == cm.category_data # None \/ cm.xy_data # None \/ cm.bubble_data # None

BestEffortEach ==
    (ppc = "applied" /\ HasNativeType(inp.cm) /\ HasDataBlock(inp.cm)) =>
        /\ out.st = "ok"
        /\ LET g == out.shapes[Len(out.shapes)]
               R == inp.slide.rejects
           IN  /\ (Truthy(inp.cm.name) /\ <<"frame", 0, "name">> \notin R)
                      => g.name = Get(inp.cm.name)
               /\ (inp.cm.style # None /\ <<"chart", 0, "chart_style">> \notin R)
                      => g.chart.chart_style = inp.cm.style
               /\ (inp.cm.has_legend # None /\ <<"chart", 0, "has_legend">> \notin R)
                      => g.chart.has_legend = Get(inp.cm.has_legend)
               /\ (inp.cm.title # None /\ <<"chart", 0, "has_title">> \notin R
                      /\ <<"chart", 0, "title">> \notin R)
                      => g.chart.title = inp.cm.title

\* ========================================================================
\* Color (text.py) and hex_color (utils.py)
\* ========================================================================
LowerLetters == <<"a","b","c","d","e","f","g","h","i","j","k","l","m",
                  "n","o","p","q","r","s","t","u","v","w","x","y","z">>
\* str.lower on one character
LowerChar(ch) == IF IsAlpha(ch) THEN LowerLetters[LetterOrd(ch)] ELSE ch
Lower(s) == [i \in 1..Len(s) |-> LowerChar(s[i])]

\* [0-9a-fA-F]
IsHexDigit(ch) ==
    \/ IsDigit(ch)
    \/ \E i \in 1..6 : Letters[i] = ch \/ LowerLetters[i] = ch
\* re.fullmatch(r"#([0-9a-fA-F]{6})", c)
FullMatchHex(c) ==
    /\ Len(c) = 7
    /\ c[1] = "#"
    /\ \A i \in 2..7 : IsHexDigit(c[i])

\* hex_color(color) for a str: [st |-> "ok", v] or [st |-> "raise"]; the
\* whitespace-only string returns None (lines 42-44)
hex_color(color) ==
    IF color = <<>> THEN [st |-> "raise", v |-> None]
    ELSE LET c == Strip(color)
             h == IF c[1] = "#" THEN c ELSE <<"#">> \o c
         IN  IF c = <<>> THEN [st |-> "ok", v |-> None]
             ELSE IF ~FullMatchHex(h) THEN [st |-> "raise", v |-> None]
             ELSE [st |-> "ok", v |-> Some(Lower(h))]

\* Color(hex=v): v must be a str; the field validator then runs on it and
\* what it returns is stored as it is
Color(v) ==
    IF v = None THEN [st |-> "raise", hex |-> None]
    ELSE [st |-> hex_color(Get(v)).st, hex |-> hex_color(Get(v)).v]

\* ------------------------------------------------------------------------
\* Bounded inputs: padding, an optional "#", and a body of up to MaxHexLen
\* characters that alternates between two characters
\* ------------------------------------------------------------------------
MaxHexLen == 7
ColorChars == {"a", "A", "F", "c", "0", "9", "g", "x", " ", "#"}
Pads == {<<>>, <<" ">>, <<" ", " ">>}
Alternating(n, c1, c2) == [i \in 1..n |-> IF i % 2 = 1 THEN c1 ELSE c2]
abc123 == <<"a", "b", "c", "1", "2", "3">>
ABC123 == <<"#", "A", "B", "C", "1", "2", "3">>
ColorInputs ==
    {None, Some(abc123), Some(ABC123), Some(<<"x", "y", "z">>), Some(<<" ">> \o ABC123)}
    \cup {Some(l \o h \o Alternating(n, c1, c2) \o r) :
             l \in Pads, r \in Pads, h \in {<<>>, <<"#">>},
             n \in 0..MaxHexLen, c1 \in ColorChars, c2 \in ColorChars}

InitColor ==
    /\ IdleRange
    /\ IdleChart
    /\ IdleUpdate
    /\ inp \in ColorInputs
    /\ out = <<>>
    /\ ppc = "init"

ConstructColor ==
    /\ ppc = "init"
    /\ out' = Color(inp)
    /\ ppc' = "constructed"
    /\ UNCHANGED inp
    /\ UNCHANGED rangeVars
    /\ UNCHANGED chartVars
    /\ UNCHANGED updVars

NextColor == ConstructColor

SpecColor == InitColor /\ [][NextColor]_vars

\* "#" followed by exactly six characters of 0-9a-f
IsNormalHex(h) ==
    /\ Len(h) = 7
    /\ h[1] = "#"
    /\ \A i \in 2..7 : IsDigit(h[i]) \/ \E k \in 1..6 : LowerLetters[k] = h[i]
\* six hexadecimal digits after an optional "#", surrounding blanks aside
SixHexDigits(t) ==
    LET c == Strip(t)
        b == IF c # <<>> /\ c[1] = "#" THEN Tail(c) ELSE c
    IN  Len(b) = 6 /\ \A i \in 1..6 : IsHexDigit(b[i])

\* C17: a constructed Color has hex "#" followed by six lowercase hexadecimal
\* digits; "abc123" and "#ABC123" both give "#abc123"; and construction fails
\* for a missing value, the empty string, a whitespace-only string and every
\* other text that is not six hexadecimal digits after an optional "#".
ColorHexNormalized ==
    ppc = "constructed" =>
        /\ out.st = "ok" => (out.hex # None /\ IsNormalHex(Get(out.hex)))
        /\ inp \in {Some(abc123), Some(ABC123)}
               => out = [st |-> "ok", hex |-> Some(<<"#", "a", "b", "c", "1", "2", "3">>)]
        /\ (inp = None \/ ~SixHexDigits(Get(inp))) => out.st = "raise"

\* ========================================================================
\* JSON values, Python values and the declared fields of the model classes
\* ========================================================================
\* a number is an exact fraction (Pt); a text is a string, the hex of a Color
\* is a sequence of characters
JNull == [t |-> "null"]
JNum(num, den) == [t |-> "num", x |-> Pt(num, den)]
JStr(str) == [t |-> "str", s |-> str]
JBool(b) == [t |-> "bool", b |-> b]
JArr(xs) == [t |-> "arr", xs |-> xs]
JObj(f) == [t |-> "obj", f |-> f]
NoFields == [k \in {} |-> JNull]

PyNone == [t |-> "none"]
PyFloat(x) == [t |-> "float", x |-> x]
PyInt(n) == [t |-> "int", n |-> n]
PyStr(str) == [t |-> "str", s |-> str]
PyBool(b) == [t |-> "bool", b |-> b]
PyEnum(str) == [t |-> "enum", s |-> str]
PyList(xs) == [t |-> "list", xs |-> xs]
PyModel(cls, f) == [t |-> "model", cls |-> cls, f |-> f]

\* one declared field: annotation, Optional[...] or not, Field(...) or a
\* default, ge / gt and le
Fld(kind, of, nullable, required, default, lo, gt, hi) ==
    [kind |-> kind, of |-> of, nullable |-> nullable, required |-> required,
     default |-> default, lo |-> lo, gt |-> gt, hi |-> hi]
Required(kind, lo) == Fld(kind, <<>>, FALSE, TRUE, JNull, lo, FALSE, None)
Optional(kind) == Fld(kind, <<>>, TRUE, FALSE, JNull, None, FALSE, None)
OptionalIn(kind, lo, hi) == Fld(kind, <<>>, TRUE, FALSE, JNull, lo, FALSE, hi)
OptionalModel(cls) == Fld("model", cls, TRUE, FALSE, JNull, None, FALSE, None)
OptionalEnum(values) == Fld("enum", values, TRUE, FALSE, JNull, None, FALSE, None)
Defaulted(kind, default, lo, hi) == Fld(kind, <<>>, FALSE, FALSE, default, lo, FALSE, hi)
ListOf(elem) == Fld("list", elem, FALSE, FALSE, JArr(<<>>), None, FALSE, None)
OptionalListOf(elem) == Fld("list", elem, TRUE, FALSE, JNull, None, FALSE, None)
Model(cls) == Fld("model", cls, FALSE, FALSE, JObj(NoFields), None, FALSE, None)
Literal(tag) == Fld("literal", tag, FALSE, FALSE, JStr(tag), None, FALSE, None)
Plain(kind) == Fld(kind, <<>>, FALSE, FALSE, JNull, None, FALSE, None)

\* text.py
TextFields(cls) ==
    CASE cls = "Color" ->
            [hex |-> Required("hex", None)]
      [] cls = "FontModel" ->
            [name |-> Optional("str"), size_pt |-> OptionalIn("float", Some(Pt(1, 1)), Some(Pt(512, 1))),
             bold |-> Optional("bool"), italic |-> Optional("bool"),
             underline |-> OptionalEnum({"none", "single"}), color |-> OptionalModel("Color")]
      [] cls = "RunModel" ->
            [text |-> Defaulted("str", JStr(""), None, None), font |-> OptionalModel("FontModel"),
             hyperlink |-> Optional("str")]
      [] cls = "ParagraphModel" ->
            [runs |-> ListOf(Model("RunModel")),
             alignment |-> OptionalEnum({"left", "center", "right", "justify", "distributed"}),
             level |-> Defaulted("int", JNum(0, 1), Some(Pt(0, 1)), Some(Pt(8, 1))),
             line_spacing |-> Fld("float", <<>>, TRUE, FALSE, JNull, Some(Pt(1, 2)), FALSE, Some(Pt(10, 1))),
             space_before_pt |-> OptionalIn("float", Some(Pt(0, 1)), Some(Pt(240, 1))),
             space_after_pt |-> OptionalIn("float", Some(Pt(0, 1)), Some(Pt(240, 1)))]
      [] cls = "TextFrameModel" ->
            [paragraphs |-> ListOf(Model("ParagraphModel")),
             auto_size |-> OptionalEnum({"none", "text_to_fit_shape", "shape_to_fit_text"}),
             vertical_anchor |-> OptionalEnum({"top", "middle", "bottom"}),
             margin_left_pt |-> Defaulted("float", JNum(72, 10), Some(Pt(0, 1)), None),
             margin_right_pt |-> Defaulted("float", JNum(72, 10), Some(Pt(0, 1)), None),
             margin_top_pt |-> Defaulted("float", JNum(72, 10), Some(Pt(0, 1)), None),
             margin_bottom_pt |-> Defaulted("float", JNum(72, 10), Some(Pt(0, 1)), None),
             word_wrap |-> Optional("bool")]

\* charts.py
SeriesFields(pointCls) ==
    [name |-> Defaulted("str", JStr(""), None, None), points |-> ListOf(Model(pointCls)),
     number_format |-> Optional("str")]
ChartFields(cls) ==
    CASE cls = "CategorySeriesModel" ->
            [name |-> Defaulted("str", JStr(""), None, None), values |-> ListOf(Plain("float")),
             number_format |-> Optional("str")]
      [] cls = "CategoryChartDataModel" ->
            [categories |-> ListOf(Plain("str")), series |-> ListOf(Model("CategorySeriesModel"))]
      [] cls = "XyPoint" -> [x |-> Optional("float"), y |-> Optional("float")]
      [] cls = "XySeriesModel" -> SeriesFields("XyPoint")
      [] cls = "XyChartDataModel" -> [series |-> ListOf(Model("XySeriesModel"))]
      [] cls = "BubblePoint" ->
            [x |-> Optional("float"), y |-> Optional("float"), size |-> Optional("float")]
      [] cls = "BubbleSeriesModel" -> SeriesFields("BubblePoint")
      [] cls = "BubbleChartDataModel" -> [series |-> ListOf(Model("BubbleSeriesModel"))]
      [] cls = "ChartModel" ->
            [type |-> Literal("chart"), name |-> Optional("str"),
             left_pt |-> Required("float", None), top_pt |-> Required("float", None),
             width_pt |-> Required("float", Some(Pt(0, 1))), height_pt |-> Required("float", Some(Pt(0, 1))),
             rotation |-> Fld("float", <<>>, TRUE, FALSE, JNum(0, 1), None, FALSE, None),
             chart_type |-> Defaulted("str", JStr("column_clustered"), None, None),
             title |-> Optional("str"), has_legend |-> Optional("bool"),
             style |-> OptionalIn("int", Some(Pt(1, 1)), Some(Pt(48, 1))),
             category_data |-> OptionalModel("CategoryChartDataModel"),
             xy_data |-> OptionalModel("XyChartDataModel"),
             bubble_data |-> OptionalModel("BubbleChartDataModel")]

\* shapes.py
BaseShapeFields(tag) ==
    [type |-> Literal(tag), name |-> Optional("str"),
     left_pt |-> Required("float", None), top_pt |-> Required("float", None),
     width_pt |-> Required("float", Some(Pt(0, 1))), height_pt |-> Required("float", Some(Pt(0, 1))),
     rotation |-> Fld("float", <<>>, TRUE, FALSE, JNum(0, 1), Some(Pt(-360, 1)), FALSE, Some(Pt(360, 1)))]
ShapeFields(cls) ==
    CASE cls = "BaseShapeModel" -> BaseShapeFields("unknown")
      [] cls = "TextBoxModel" ->
            BaseShapeFields("text_box") @@ [text_frame |-> Model("TextFrameModel")]
      [] cls = "PictureModel" ->
            BaseShapeFields("picture") @@ [image_path |-> Optional("str")]
      [] cls = "TableModel" ->
            BaseShapeFields("table") @@
            [rows |-> ListOf(ListOf(Plain("cell"))),
             col_widths_pt |-> OptionalListOf(Plain("float")),
             first_row |-> Optional("bool"), last_row |-> Optional("bool"),
             first_col |-> Optional("bool"), last_col |-> Optional("bool"),
             horz_banding |-> Optional("bool"), vert_banding |-> Optional("bool"),
             row_heights_pt |-> OptionalListOf(Plain("float"))]

\* presentation.py
PresentationFields ==
    [slide_width_in |-> Fld("float", <<>>, TRUE, FALSE, JNull, Some(Pt(0, 1)), TRUE, None),
     slide_height_in |-> Fld("float", <<>>, TRUE, FALSE, JNull, Some(Pt(0, 1)), TRUE, None),
     slides |-> ListOf(Model("SlideModel"))]
\* SlideModel: a layout index and the ordered shapes of the slide
SlideFields ==
    [layout_index |-> Optional("int"), shapes |-> ListOf(Plain("shape"))]

TextClasses == {"Color", "FontModel", "RunModel", "ParagraphModel", "TextFrameModel"}
ChartClasses == {"CategorySeriesModel", "CategoryChartDataModel", "XyPoint", "XySeriesModel",
                 "XyChartDataModel", "BubblePoint", "BubbleSeriesModel",
                 "BubbleChartDataModel", "ChartModel"}
ShapeClasses == {"BaseShapeModel", "TextBoxModel", "PictureModel", "TableModel"}
Fields(cls) ==
    IF cls \in TextClasses THEN TextFields(cls)
    ELSE IF cls \in ChartClasses THEN ChartFields(cls)
    ELSE IF cls \in ShapeClasses THEN ShapeFields(cls)
    ELSE IF cls = "PresentationModel" THEN PresentationFields
    ELSE SlideFields

\* model_config: every class sets extra="forbid" but XyPoint and BubblePoint,
\* which keep the default of JsonModel
ForbidsExtra(cls) == cls \notin {"XyPoint", "BubblePoint"}

\* the union member a discriminator tag selects
ShapeTags == {"text_box", "picture", "table", "chart", "unknown"}
VariantOf(tag) ==
    CASE tag = "text_box" -> "TextBoxModel"
      [] tag = "picture"  -> "PictureModel"
      [] tag = "table"    -> "TableModel"
      [] tag = "chart"    -> "ChartModel"
      [] tag = "unknown"  -> "BaseShapeModel"

\* ========================================================================
\* Validation (construction, from_json) and serialization (to_json)
\* ========================================================================
Invalid == [ok |-> FALSE, v |-> PyNone]
Valid(v) == [ok |-> TRUE, v |-> v]
\* the place of a value that failed validation
Bad == [t |-> "invalid"]

\* ge / gt / le of a field on the fraction x
InBounds(spec, x) ==
    /\ spec.lo # None =>
          IF spec.gt THEN x.num * Get(spec.lo).den > Get(spec.lo).num * x.den
          ELSE x.num * Get(spec.lo).den >= Get(spec.lo).num * x.den
    /\ spec.hi # None => x.num * Get(spec.hi).den <= Get(spec.hi).num * x.den

\* Color._validate_hex: the value hex_color returns is stored as it is
StoredHex(r) ==
    IF r.st = "raise" THEN Bad
    ELSE IF r.v = None THEN PyNone
    ELSE PyStr(Get(r.v))
ValidateHex(str) == StoredHex(hex_color(str))

RECURSIVE Convert(_, _)
RECURSIVE ConvertModel(_, _)

\* the value of field k of class cls in the payload f, its default when absent
FieldValue(cls, f, k) ==
    IF k \in DOMAIN f THEN Convert(Fields(cls)[k], f[k])
    ELSE IF Fields(cls)[k].required THEN Bad
    ELSE Convert([Fields(cls)[k] EXCEPT !.lo = None, !.hi = None], Fields(cls)[k].default)

\* the instance of cls a JSON value gives, Bad where validation fails
ConvertModel(cls, j) ==
    IF j.t # "obj" THEN Bad
    ELSE IF ForbidsExtra(cls) /\ ~(DOMAIN j.f \subseteq DOMAIN Fields(cls)) THEN Bad
    ELSE PyModel(cls, [k \in DOMAIN Fields(cls) |-> FieldValue(cls, j.f, k)])

\* the discriminated union ShapeModel: the tag picks the class
ConvertShape(j) ==
    IF j.t # "obj" THEN Bad
    ELSE IF "type" \notin DOMAIN j.f THEN Bad
    ELSE IF j.f["type"].t # "str" THEN Bad
    ELSE IF j.f["type"].s \notin ShapeTags THEN Bad
    ELSE ConvertModel(VariantOf(j.f["type"].s), j)

\* a table cell, TextFrameModel | str
ConvertCell(j) ==
    IF j.t = "str" THEN PyStr(j.s) ELSE ConvertModel("TextFrameModel", j)

\* one field value against its annotation
Convert(spec, j) ==
    IF j.t = "null" THEN (IF spec.nullable THEN PyNone ELSE Bad)
    ELSE CASE spec.kind = "float" ->
                IF j.t = "num" /\ InBounds(spec, j.x) THEN PyFloat(j.x) ELSE Bad
           [] spec.kind = "int" ->
                IF j.t = "num" /\ j.x.den = 1 /\ InBounds(spec, j.x) THEN PyInt(j.x.num) ELSE Bad
           [] spec.kind = "str" -> IF j.t = "str" THEN PyStr(j.s) ELSE Bad
           [] spec.kind = "hex" -> IF j.t = "str" THEN ValidateHex(j.s) ELSE Bad
           [] spec.kind = "bool" -> IF j.t = "bool" THEN PyBool(j.b) ELSE Bad
           [] spec.kind = "enum" -> IF j.t = "str" /\ j.s \in spec.of THEN PyEnum(j.s) ELSE Bad
           [] spec.kind = "literal" -> IF j.t = "str" /\ j.s = spec.of THEN PyEnum(j.s) ELSE Bad
           [] spec.kind = "model" -> ConvertModel(spec.of, j)
           [] spec.kind = "cell" -> ConvertCell(j)
           [] spec.kind = "shape" -> ConvertShape(j)
           [] spec.kind = "list" ->
                IF j.t # "arr" THEN Bad
                ELSE PyList([i \in 1..Len(j.xs) |-> Convert(spec.of, j.xs[i])])

\* a validation error anywhere in the value
RECURSIVE IsBad(_)
IsBad(v) ==
    \/ v.t = "invalid"
    \/ v.t = "list" /\ \E i \in 1..Len(v.xs) : IsBad(v.xs[i])
    \/ v.t = "model" /\ \E k \in DOMAIN v.f : IsBad(v.f[k])
Checked(v) == IF IsBad(v) THEN Invalid ELSE Valid(v)

\* cls.model_validate on a JSON value
ValidateModel(cls, j) == Checked(ConvertModel(cls, j))
ValidateShape(j) == Checked(ConvertShape(j))

\* cls.from_json(data); cls is a class name or "ShapeModel" for the union
from_json(cls, j) == IF cls = "ShapeModel" THEN ValidateShape(j) ELSE ValidateModel(cls, j)

\* model_dump_json: every field is written, None as null, an enum as its value
RECURSIVE to_json(_)
to_json(v) ==
    CASE v.t = "none"  -> JNull
      [] v.t = "float" -> [t |-> "num", x |-> v.x]
      [] v.t = "int"   -> JNum(v.n, 1)
      [] v.t = "str"   -> JStr(v.s)
      [] v.t = "bool"  -> JBool(v.b)
      [] v.t = "enum"  -> JStr(v.s)
      [] v.t = "list"  -> JArr([i \in 1..Len(v.xs) |-> to_json(v.xs[i])])
      [] v.t = "model" -> JObj([k \in DOMAIN v.f |-> to_json(v.f[k])])

\* ------------------------------------------------------------------------
\* Bounded inputs: payloads of the five shape variants and of single classes
\* ------------------------------------------------------------------------
Blank == <<" ", " ">>
Sizes == {-1, 0, 72}
Rotations == {-361, -360, 0, 360, 400}
RotationKinds == {"absent", "null", "number"}
PayloadTags == ShapeTags \cup {"bogus", "absent"}
ExtraPlaces == {"none", "top"}

\* a run whose font has the colour hex
RunPayload(hex) ==
    JObj([text |-> JStr("hi"), font |-> JObj([color |-> JObj([hex |-> JStr(hex)])])])
FramePayload(runs) == JObj([paragraphs |-> JArr(<<JObj([runs |-> JArr(runs)])>>)])
XyPointPayload(extra) ==
    JObj([x |-> JNum(1, 1), y |-> JNum(5, 2)] @@
         (IF extra THEN [z |-> JNum(9, 1)] ELSE NoFields))
XyPayload(extra) ==
    JObj([series |-> JArr(<<JObj([name |-> JStr("s"), points |-> JArr(<<XyPointPayload(extra)>>)])>>)])
CategoryPayload ==
    JObj([categories |-> JArr(<<JStr("a"), JStr("b")>>),
          series |-> JArr(<<JObj([name |-> JStr("s"),
                                  values |-> JArr(<<JNum(1, 1), JNum(5, 2)>>)])>>)])
BubblePayload ==
    JObj([series |-> JArr(<<JObj([points |-> JArr(<<JObj([x |-> JNum(1, 1), y |-> JNum(2, 1),
                                                         size |-> JNum(3, 1)])>>)])>>)])

\* what a payload of a variant holds besides the common fields
Contents(tag) ==
    CASE tag = "chart" -> {"plain", "category", "xy", "bubble", "category_and_xy",
                           "style_0", "style_48", "style_49", "point_extra"}
      [] tag = "text_box" -> {"plain", "text", "color_upper", "color_blank", "color_bad",
                              "font_extra"}
      [] tag = "table" -> {"plain", "rows"}
      [] tag = "picture" -> {"plain", "path"}
      [] OTHER -> {"plain"}
ContentFields(c) ==
    CASE c = "category" -> [category_data |-> CategoryPayload, chart_type |-> JStr("line")]
      [] c = "xy" -> [xy_data |-> XyPayload(FALSE), chart_type |-> JStr("scatter")]
      [] c = "bubble" -> [bubble_data |-> BubblePayload, chart_type |-> JStr("bubble")]
      [] c = "category_and_xy" -> [category_data |-> CategoryPayload, xy_data |-> XyPayload(FALSE)]
      [] c = "style_0" -> [style |-> JNum(0, 1)]
      [] c = "style_48" -> [style |-> JNum(48, 1), title |-> JStr("T"), has_legend |-> JBool(TRUE)]
      [] c = "style_49" -> [style |-> JNum(49, 1)]
      [] c = "point_extra" -> [xy_data |-> XyPayload(TRUE)]
      [] c = "text" -> [text_frame |-> FramePayload(<<RunPayload(<<"#", "a", "b", "c", "1", "2", "3">>)>>)]
      [] c = "color_upper" -> [text_frame |-> FramePayload(<<RunPayload(ABC123)>>)]
      [] c = "color_blank" -> [text_frame |-> FramePayload(<<RunPayload(Blank)>>)]
      [] c = "color_bad" -> [text_frame |-> FramePayload(<<RunPayload(<<"x", "y", "z">>)>>)]
      [] c = "font_extra" ->
            [text_frame |-> FramePayload(<<JObj([font |-> JObj([weight |-> JNum(7, 1)])])>>)]
      [] c = "rows" -> [rows |-> JArr(<<JArr(<<JStr("a"), FramePayload(<<>>)>>)>>),
                        col_widths_pt |-> JArr(<<JNum(10, 1), JNum(20, 1)>>)]
      [] c = "path" -> [image_path |-> JStr("p.png")]
      [] OTHER -> NoFields

ShapePayload(tag, c, w, h, rotKind, rot, extra) ==
    JObj([left_pt |-> JNum(3, 8), top_pt |-> JNum(10, 1),
          width_pt |-> JNum(w, 1), height_pt |-> JNum(h, 1)]
         @@ (IF tag = "absent" THEN NoFields ELSE [type |-> JStr(tag)])
         @@ (IF rotKind = "absent" THEN NoFields
             ELSE IF rotKind = "null" THEN [rotation |-> JNull]
             ELSE [rotation |-> JNum(rot, 1)])
         @@ ContentFields(c)
         @@ (IF extra = "top" THEN [colour |-> JStr("red")] ELSE NoFields))

\* the class a payload is given to: the union, or the class of its tag
EntryClasses(tag) ==
    {"ShapeModel", IF tag \in ShapeTags THEN VariantOf(tag) ELSE "BaseShapeModel"}

\* payloads of the classes that are no shape
SingleClasses == {"Color", "XyPoint", "BubblePoint", "TextFrameModel", "CategoryChartDataModel",
                  "XyChartDataModel", "PresentationModel"}
SinglePayload(cls, hex, extra) ==
    JObj((CASE cls = "Color" -> [hex |-> JStr(hex)]
            [] cls = "XyPoint" -> [x |-> JNum(1, 1)]
            [] cls = "BubblePoint" -> [size |-> JNum(1, 1)]
            [] cls = "TextFrameModel" -> FramePayload(<<RunPayload(hex)>>).f
            [] cls = "CategoryChartDataModel" -> CategoryPayload.f
            [] cls = "XyChartDataModel" -> XyPayload(FALSE).f
            [] cls = "PresentationModel" ->
                  [slides |-> JArr(<<JObj([shapes |-> JArr(<<
                       ShapePayload("text_box", "text", 72, 72, "absent", 0, "none"),
                       ShapePayload("chart", "category", 72, 72, "number", 0, "none")>>)])>>)])
         @@ (IF extra = "top" THEN [colour |-> JStr("red")] ELSE NoFields))
Hexes == {abc123, ABC123, Blank, <<>>, <<"x", "y", "z">>}

InitJson ==
    /\ IdleRange
    /\ IdleChart
    /\ IdleUpdate
    /\ \/ \E tag \in PayloadTags, w \in Sizes, h \in Sizes, rotKind \in RotationKinds,
             extra \in ExtraPlaces :
             \E c \in Contents(tag), cls \in EntryClasses(tag),
                rot \in IF rotKind = "number" THEN Rotations ELSE {0} :
                inp = [cls |-> cls, j |-> ShapePayload(tag, c, w, h, rotKind, rot, extra),
                       tag |-> tag, content |-> c, extra |-> extra]
       \/ \E cls \in SingleClasses, hex \in Hexes, extra \in ExtraPlaces :
             inp = [cls |-> cls, j |-> SinglePayload(cls, hex, extra),
                    tag |-> "none", content |-> "plain", extra |-> extra]
    /\ out = <<>>
    /\ ppc = "init"

\* cls.from_json(data), or the constructor with the same fields
FromJson ==
    /\ ppc = "init"
    /\ out' = [first |-> from_json(inp.cls, inp.j), again |-> Invalid]
    /\ ppc' = "validated"
    /\ UNCHANGED inp
    /\ UNCHANGED rangeVars
    /\ UNCHANGED chartVars
    /\ UNCHANGED updVars

\* cls.from_json(m.to_json()) on the model m just built
Reload ==
    /\ ppc = "validated"
    /\ out.first.ok
    /\ out' = [out EXCEPT !.again = from_json(inp.cls, to_json(out.first.v))]
    /\ ppc' = "reloaded"
    /\ UNCHANGED inp
    /\ UNCHANGED rangeVars
    /\ UNCHANGED chartVars
    /\ UNCHANGED updVars

NextJson == FromJson \/ Reload

SpecJson == InitJson /\ [][NextJson]_vars

\* the model the payload gave, once construction succeeded
Built == ppc # "init" /\ out.first.ok
IsShapeInstance(v) == v.cls \in ShapeClasses \cup {"ChartModel"}

\* C15: a model that was built, serialized with to_json and read back with
\* from_json of the same class (for a shape also through the ShapeModel union)
\* is read without error and equals the model it came from; in particular it
\* is an instance of the same class.
JsonIdempotence ==
    ppc = "reloaded" =>
        /\ out.again.ok
        /\ out.again.v = out.first.v
        /\ out.again.v.cls = out.first.v.cls

\* C16: a payload holding a field that the class it is read as (or a class
\* nested in it) does not declare is rejected, and so is a shape payload whose
\* type tag is none of text_box, picture, table, chart, unknown.
UndeclaredFields ==
    \/ inp.extra = "top"
    \/ inp.content \in {"point_extra", "font_extra"}
StrictDeserialization ==
    (ppc = "validated" /\ (UndeclaredFields \/ inp.tag = "bogus")) => ~out.first.ok

\* C18: no shape model instance of any variant has a negative width or
\* height, or a rotation below -360 or above 360.
FloatAtLeast(v, n) == v.x.num >= n * v.x.den
FloatAtMost(v, n) == v.x.num <= n * v.x.den
GeometryValidated ==
    (Built /\ IsShapeInstance(out.first.v)) =>
        /\ FloatAtLeast(out.first.v.f["width_pt"], 0)
        /\ FloatAtLeast(out.first.v.f["height_pt"], 0)
        /\ \/ out.first.v.f["rotation"] = PyNone
           \/ /\ FloatAtLeast(out.first.v.f["rotation"], -360)
              /\ FloatAtMost(out.first.v.f["rotation"], 360)

\* C19: a ChartModel instance has at most one of category_data, xy_data and
\* bubble_data set.
DataBlocksSet(v) == {k \in {"category_data", "xy_data", "bubble_data"} : v.f[k] # PyNone}
AtMostOneDataBlock ==
    (Built /\ out.first.v.cls = "ChartModel") => Cardinality(DataBlocksSet(out.first.v)) <= 1

\* ========================================================================
\* ChartModel.from_pptx and the from_chart extractors
\* ========================================================================
\* a live series: s.name, s.values, and the x / y / bubble-size point storage
\* (a sequence per storage, None where the storage has no point at an index)
LiveSeries(name, values, paired, xs, ys, sizes) ==
    [name |-> name, values |-> values, paired |-> paired, xs |-> xs, ys |-> ys, sizes |-> sizes]
\* a float or None as a constructor argument
NumArg(o) == IF o = None THEN JNull ELSE [t |-> "num", x |-> Get(o)]
StrArg(o) == IF o = None THEN JNull ELSE JStr(Get(o))
NameOrEmpty(o) == IF o = None THEN "" ELSE Get(o)

\* CategorySeriesModel(name=s.name or "", values=list(s.values))
CategorySeriesOf(s) ==
    ValidateModel("CategorySeriesModel",
        JObj([name |-> JStr(NameOrEmpty(s.name)),
              values |-> JArr([i \in 1..Len(s.values) |-> NumArg(s.values[i])])]))
\* lines 92-97: the loop ends at the first series that cannot be built
RECURSIVE CategorySeriesLoop(_, _, _)
CategorySeriesStep(series, i, acc, r) ==
    IF ~r.ok THEN acc ELSE CategorySeriesLoop(series, i + 1, Append(acc, to_json(r.v)))
CategorySeriesLoop(series, i, acc) ==
    IF i > Len(series) THEN acc
    ELSE CategorySeriesStep(series, i, acc, CategorySeriesOf(series[i]))

\* CategoryChartDataModel.from_chart
CategoryFromChart(ch) ==
    ValidateModel("CategoryChartDataModel",
        JObj([categories |-> JArr(IF ch.catsReadable
                                  THEN [i \in 1..Len(ch.categories) |-> JStr(ch.categories[i])]
                                  ELSE <<>>),
              series |-> JArr(IF ch.seriesReadable
                              THEN CategorySeriesLoop(ch.series, 1, <<>>) ELSE <<>>)]))

\* lines 140-150: the points of one xy series
XyPointsOf(s) ==
    IF s.paired
    THEN [i \in 1..Min(Len(s.xs), Len(s.ys)) |-> JObj([x |-> NumArg(s.xs[i]), y |-> NumArg(s.ys[i])])]
    ELSE [i \in 1..Len(s.values) |-> JObj([x |-> JNum(i - 1, 1), y |-> NumArg(s.values[i])])]
\* XyChartDataModel.from_chart
XyFromChart(ch) ==
    ValidateModel("XyChartDataModel",
        JObj([series |-> JArr(IF ch.seriesReadable
            THEN [k \in 1..Len(ch.series) |->
                     JObj([name |-> JStr(NameOrEmpty(ch.series[k].name)),
                           points |-> JArr(XyPointsOf(ch.series[k]))])]
            ELSE <<>>)]))

\* lines 199-222: the points of one bubble series; a size that is missing is None
SizeAt(s, i) == IF i <= Len(s.sizes) THEN s.sizes[i] ELSE None
BubblePointsOf_noSizeCount(s) ==
    IF s.paired
    THEN [i \in 1..Min(Len(s.xs), Len(s.ys)) |->
             JObj([x |-> NumArg(s.xs[i]), y |-> NumArg(s.ys[i]), size |-> NumArg(SizeAt(s, i))])]
    ELSE [i \in 1..Len(s.values) |->
             JObj([x |-> JNum(i - 1, 1), y |-> NumArg(s.values[i]), size |-> JNull])]
BubblePointsOf(s) ==
    IF s.paired
    THEN [i \in 1..Min(Min(Len(s.xs), Len(s.ys)), Len(s.sizes)) |->
             JObj([x |-> NumArg(s.xs[i]), y |-> NumArg(s.ys[i]), size |-> NumArg(SizeAt(s, i))])]
    ELSE [i \in 1..Len(s.values) |->
             JObj([x |-> JNum(i - 1, 1), y |-> NumArg(s.values[i]), size |-> JNull])]
\* BubbleChartDataModel.from_chart
BubbleFromChart(ch) ==
    ValidateModel("BubbleChartDataModel",
        JObj([series |-> JArr(IF ch.seriesReadable
            THEN [k \in 1..Len(ch.series) |->
                     JObj([name |-> JStr(NameOrEmpty(ch.series[k].name)),
                           points |-> JArr(BubblePointsOf(ch.series[k]))])]
            ELSE <<>>)]))

\* lines 264-272: the title, read only when has_title is set
TitleOf(ch) ==
    IF ch.titleReadable /\ ch.has_title THEN StrArg(ch.title) ELSE JNull
\* lines 273-277
HasLegendOf(ch) == IF ch.legendReadable THEN JBool(ch.has_legend) ELSE JNull
\* line 278: getattr(ch, "chart_style", None), whatever the number is
StyleOf(ch) == IF ch.chart_style = None THEN JNull ELSE JNum(Get(ch.chart_style), 1)
\* emu_to_pt(v) or 0.0
PtOrZero(emu) == [t |-> "num", x |-> IF emu = None THEN Pt(0, 1) ELSE emu_to_pt(Get(emu))]

\* lines 280-292: the data block of the chart family
DataFields(chart_type, ch) ==
    IF chart_type = "scatter" THEN [xy_data |-> to_json(XyFromChart(ch).v)]
    ELSE IF chart_type = "bubble" THEN [bubble_data |-> to_json(BubbleFromChart(ch).v)]
    ELSE [category_data |-> to_json(CategoryFromChart(ch).v)]

\* lines 294-308: cls(...) on what was read
BuildChartModel(gframe, chart_type) ==
    ValidateModel("ChartModel",
        JObj([name |-> StrArg(gframe.name),
              left_pt |-> PtOrZero(gframe.left), top_pt |-> PtOrZero(gframe.top),
              width_pt |-> PtOrZero(gframe.width), height_pt |-> PtOrZero(gframe.height),
              rotation |-> JNum(0, 1),
              chart_type |-> JStr(chart_type),
              title |-> TitleOf(gframe.chart),
              has_legend |-> HasLegendOf(gframe.chart),
              style |-> StyleOf(gframe.chart)]
             @@ DataFields(chart_type, gframe.chart)))

\* the whole method: [st |-> "ok" | "raise", m]; gframe.chart and ch.chart_type
\* are read outside any try block
Outcome(r) == IF r.ok THEN [st |-> "ok", m |-> r.v] ELSE [st |-> "raise", m |-> PyNone]
ChartFromPptx(gframe) ==
    IF ~gframe.chartOK \/ ~gframe.chart.typeReadable THEN [st |-> "raise", m |-> PyNone]
    ELSE Outcome(BuildChartModel(gframe, _to_chart_type(gframe.chart.chart_type)))

\* ------------------------------------------------------------------------
\* Bounded inputs: live chart frames
\* ------------------------------------------------------------------------
NativeTypes == {"COLUMN_CLUSTERED", "PIE", "XY_SCATTER", "XY_SCATTER_SMOOTH", "BUBBLE",
                "BUBBLE_THREE_D_EFFECT", "BAR_STACKED"}
StyleIds == {None, Some(0), Some(1), Some(48), Some(49)}
ReadFaults == {"none", "chart", "chart_type", "title", "legend", "series", "categories"}
Num(n) == Some(Pt(n, 1))
\* stored points per series: xs, ys and sizes of given lengths
SeriesOfCounts(nx, ny, ns) ==
    LiveSeries(Some("s"), [i \in 1..ny |-> Num(10 * i)], TRUE,
               [i \in 1..nx |-> Num(i)], [i \in 1..ny |-> Num(10 * i)],
               [i \in 1..ns |-> IF i = 2 THEN None ELSE Num(100 * i)])
MaxPoints == 2
SeriesShapes ==
    {SeriesOfCounts(nx, ny, ns) : nx \in 1..MaxPoints, ny \in 1..MaxPoints, ns \in 1..MaxPoints}
    \cup {SeriesOfCounts(5, 3, 4), SeriesOfCounts(3, 4, 0)}
    \cup {LiveSeries(None, <<Num(1), None, Num(3)>>, FALSE, <<>>, <<>>, <<>>),
          LiveSeries(Some("v"), <<Num(1), Num(2)>>, FALSE, <<>>, <<>>, <<>>)}

LiveChartOf(native, style, fault, hasTitle, series) ==
    [chart_type |-> native, typeReadable |-> fault # "chart_type",
     has_title |-> hasTitle, title |-> IF hasTitle THEN Some("T") ELSE None,
     titleReadable |-> fault # "title",
     has_legend |-> hasTitle, legendReadable |-> fault # "legend",
     chart_style |-> style,
     categories |-> <<"a", "b">>, catsReadable |-> fault # "categories",
     series |-> series, seriesReadable |-> fault # "series"]
LiveFrame(name, left, width, fault, ch) ==
    [kind |-> "chart", name |-> name, left |-> left, top |-> Some(127000), width |-> width,
     height |-> width, chartOK |-> fault # "chart", chart |-> ch]

InitExtract ==
    /\ IdleRange
    /\ IdleChart
    /\ IdleUpdate
    /\ \E native \in NativeTypes, style \in StyleIds, fault \in ReadFaults,
          hasTitle \in BOOLEAN, s \in SeriesShapes, left \in {None, Some(4762)} :
          inp = LiveFrame(Some("Chart 1"), left, Some(914400), fault,
                          LiveChartOf(native, style, fault, hasTitle,
                                      <<LiveSeries(Some("first"), <<Num(7)>>, FALSE, <<>>, <<>>, <<>>), s>>))
    /\ out = <<>>
    /\ ppc = "init"

ExtractChart ==
    /\ ppc = "init"
    /\ out' = ChartFromPptx(inp)
    /\ ppc' = "extracted"
    /\ UNCHANGED inp
    /\ UNCHANGED rangeVars
    /\ UNCHANGED chartVars
    /\ UNCHANGED updVars

NextExtract == ExtractChart

SpecExtract == InitExtract /\ [][NextExtract]_vars

\* C20: from_pptx returns a ChartModel for every live chart frame, whatever
\* cannot be read and whatever the style id is; a title or legend flag that
\* cannot be read is None in the model and unreadable series give an empty
\* series list.
ExtractionNeverRaises ==
    ppc = "extracted" =>
        /\ out.st = "ok"
        /\ out.m.cls = "ChartModel"
        /\ ~inp.chart.titleReadable => out.m.f["title"] = PyNone
        /\ ~inp.chart.legendReadable => out.m.f["has_legend"] = PyNone
        /\ ~inp.chart.seriesReadable =>
              \A k \in DataBlocksSet(out.m) : out.m.f[k].f["series"] = PyList(<<>>)

\* ========================================================================
\* Extraction of a document and its rebuild
\* (PresentationModel.from_presentation / build_presentation)
\* ========================================================================
\* live shapes: [kind, name, left, top, width, height] and, by kind,
\* text_frame (text box), rows and col_widths (table), chart (chart frame)
LiveParagraph(runs, line_spacing) == [runs |-> runs, line_spacing |-> line_spacing]
LiveTextFrame(paragraphs) == [paragraphs |-> paragraphs]
NoSpacing == [t |-> "none"]
\* p.line_spacing as a float (a number of lines)
LinesSpacing(x) == [t |-> "float", x |-> x]
\* p.line_spacing as a Length (a fixed height in EMU), which is an int
FixedSpacing(emu) == [t |-> "length", emu |-> emu]

\* RunModel.from_pptx_run: the text and a font
RunArgs(text) == JObj([text |-> JStr(text), font |-> JObj(NoFields)])
\* ParagraphModel.from_pptx: the arguments of cls(...)
ParagraphArgs(p) ==
    JObj([runs |-> JArr([i \in 1..Len(p.runs) |-> RunArgs(p.runs[i])]),
          level |-> JNum(0, 1),
          line_spacing |-> CASE p.line_spacing.t = "float" -> [t |-> "num", x |-> p.line_spacing.x]
                             [] p.line_spacing.t = "length" -> JNum(p.line_spacing.emu, 1)
                             [] OTHER -> JNull])
\* TextFrameModel.from_pptx: the arguments of cls(...), margins at 7.2
TextFrameArgs(tf) ==
    JObj([paragraphs |-> JArr([i \in 1..Len(tf.paragraphs) |-> ParagraphArgs(tf.paragraphs[i])]),
          margin_left_pt |-> JNum(72, 10), margin_right_pt |-> JNum(72, 10),
          margin_top_pt |-> JNum(72, 10), margin_bottom_pt |-> JNum(72, 10)])

\* base_kwargs of BaseShapeModel.from_pptx
BaseArgs(shape) ==
    [name |-> StrArg(shape.name),
     left_pt |-> PtOrZero(shape.left), top_pt |-> PtOrZero(shape.top),
     width_pt |-> PtOrZero(shape.width), height_pt |-> PtOrZero(shape.height),
     rotation |-> JNum(0, 1)]
\* TableModel.from_pptx and the TableModel(...) call of lines 58-70
TableArgs(shape) ==
    [type |-> JStr("table"),
     rows |-> JArr([r \in 1..Len(shape.rows) |->
                 JArr([c \in 1..Len(shape.rows[r]) |-> TextFrameArgs(shape.rows[r][c])])]),
     col_widths_pt |-> JArr([c \in 1..Len(shape.col_widths) |-> PtOrZero(Some(shape.col_widths[c]))])]

\* a constructor call: the instance, or the ValidationError it raises
Constructed(cls, args) == Outcome(ValidateModel(cls, JObj(args)))

\* lines 55-79: a table, a picture, or a shape of kind unknown
ShapeFallback(shape) ==
    IF shape.kind = "table" THEN Constructed("TableModel", BaseArgs(shape) @@ TableArgs(shape))
    ELSE IF shape.kind = "picture"
    THEN Constructed("PictureModel", BaseArgs(shape) @@ [type |-> JStr("picture"), image_path |-> JNull])
    ELSE Constructed("BaseShapeModel", BaseArgs(shape))
\* lines 49-53: the chart model, or the fallback when ChartModel.from_pptx raised
ChartOrFallback(shape, r) == IF r.st = "ok" THEN r ELSE ShapeFallback(shape)

\* BaseShapeModel.from_pptx: [st |-> "ok" | "raise", m]
ShapeFromPptx(shape) ==
    IF shape.kind = "text_box"
    THEN Constructed("TextBoxModel",
            BaseArgs(shape) @@ [type |-> JStr("text_box"), text_frame |-> TextFrameArgs(shape.text_frame)])
    ELSE IF shape.kind = "chart" THEN ChartOrFallback(shape, ChartFromPptx(shape))
    ELSE ShapeFallback(shape)

\* SlideModel.from_pptx: the shapes of the slide in order, each through
\* BaseShapeModel.from_pptx
RECURSIVE ShapesFromPptx(_, _, _)
ShapesFromPptxStep(shapes, i, acc, r) ==
    IF r.st # "ok" THEN [st |-> "raise", ms |-> <<>>]
    ELSE ShapesFromPptx(shapes, i + 1, Append(acc, r.m))
ShapesFromPptx(shapes, i, acc) ==
    IF i > Len(shapes) THEN [st |-> "ok", ms |-> acc]
    ELSE ShapesFromPptxStep(shapes, i, acc, ShapeFromPptx(shapes[i]))

\* PresentationModel.from_presentation: [st, slides], slides a sequence of
\* sequences of shape models
RECURSIVE from_presentation_from(_, _, _)
from_presentation_step(prsDoc, i, acc, r) ==
    IF r.st # "ok" THEN [st |-> "raise", slides |-> <<>>, doc |-> <<>>]
    ELSE from_presentation_from(prsDoc, i + 1, Append(acc, r.ms))
from_presentation_from(prsDoc, i, acc) ==
    IF i > Len(prsDoc) THEN [st |-> "ok", slides |-> acc, doc |-> <<>>]
    ELSE from_presentation_step(prsDoc, i, acc, ShapesFromPptx(prsDoc[i], 1, <<>>))
from_presentation(prsDoc) == from_presentation_from(prsDoc, 1, <<>>)

\* ---- the write side ----
PyOpt(v) == IF v.t = "none" THEN None ELSE Some(v)
PyStrOpt(v) == IF v.t = "none" THEN None ELSE Some(v.s)
\* the ChartModel instance m as apply_to_slide reads it
CmOf(m) ==
    [type |-> "chart", chart_type |-> m.f["chart_type"].s,
     left_pt |-> m.f["left_pt"].x, top_pt |-> m.f["top_pt"].x,
     width_pt |-> m.f["width_pt"].x, height_pt |-> m.f["height_pt"].x,
     name |-> PyStrOpt(m.f["name"]),
     style |-> IF m.f["style"].t = "none" THEN None ELSE Some(m.f["style"].n),
     has_legend |-> IF m.f["has_legend"].t = "none" THEN None ELSE Some(m.f["has_legend"].b),
     title |-> PyStrOpt(m.f["title"]),
     category_data |-> PyOpt(m.f["category_data"]), xy_data |-> PyOpt(m.f["xy_data"]),
     bubble_data |-> PyOpt(m.f["bubble_data"])]

\* ParagraphModel.to_pptx: the runs and the line spacing written
ParagraphToPptx(pm) ==
    LiveParagraph([i \in 1..Len(pm.f["runs"].xs) |-> pm.f["runs"].xs[i].f["text"].s],
                  IF pm.f["line_spacing"].t = "none" THEN NoSpacing
                  ELSE LinesSpacing(pm.f["line_spacing"].x))
\* TextFrameModel.to_pptx on the text frame of a new shape or cell, which has
\* one empty paragraph
TextFrameToPptx(tfm) ==
    IF tfm.f["paragraphs"].xs = <<>> THEN LiveTextFrame(<<LiveParagraph(<<>>, NoSpacing)>>)
    ELSE LiveTextFrame([i \in 1..Len(tfm.f["paragraphs"].xs) |->
                           ParagraphToPptx(tfm.f["paragraphs"].xs[i])])
\* a table cell: a str becomes one paragraph of one run
CellToPptx(cell) ==
    IF cell.t = "str" THEN LiveTextFrame(<<LiveParagraph(<<cell.s>>, NoSpacing)>>)
    ELSE TextFrameToPptx(cell)

NewName(m, default) == IF Truthy(PyStrOpt(m.f["name"])) THEN Some(m.f["name"].s) ELSE Some(default)
NewGeometry(m) ==
    [left |-> Some(pt_to_emu(m.f["left_pt"].x)), top |-> Some(pt_to_emu(m.f["top_pt"].x)),
     width |-> Some(pt_to_emu(m.f["width_pt"].x)), height |-> Some(pt_to_emu(m.f["height_pt"].x))]

\* TextBoxModel.apply_to_slide
TextBoxApply(m, shapes) ==
    Append(shapes, [kind |-> "text_box", name |-> NewName(m, "TextBox")] @@ NewGeometry(m)
                   @@ [text_frame |-> TextFrameToPptx(m.f["text_frame"])])
\* TableModel.apply_to_slide: nothing without rows; a cell the model's row
\* does not reach stays empty
MaxRowLen(rows) == CHOOSE n \in 0..100 :
    /\ \A r \in 1..Len(rows) : Len(rows[r].xs) <= n
    /\ \E r \in 1..Len(rows) : Len(rows[r].xs) = n
TableApply(m, shapes) ==
    IF m.f["rows"].xs = <<>> THEN shapes
    ELSE Append(shapes,
        [kind |-> "table", name |-> NewName(m, "Table")] @@ NewGeometry(m) @@
        [rows |-> [r \in 1..Len(m.f["rows"].xs) |->
                     [c \in 1..MaxRowLen(m.f["rows"].xs) |->
                        IF c <= Len(m.f["rows"].xs[r].xs) THEN CellToPptx(m.f["rows"].xs[r].xs[c])
                        ELSE LiveTextFrame(<<LiveParagraph(<<>>, NoSpacing)>>)]],
         col_widths |-> IF m.f["col_widths_pt"].t # "none"
                           /\ Len(m.f["col_widths_pt"].xs) = MaxRowLen(m.f["rows"].xs)
                        THEN [c \in 1..Len(m.f["col_widths_pt"].xs) |->
                                 pt_to_emu(m.f["col_widths_pt"].xs[c].x)]
                        ELSE [c \in 1..MaxRowLen(m.f["rows"].xs) |->
                                 pt_to_emu(m.f["width_pt"].x) \div MaxRowLen(m.f["rows"].xs)]])

\* one shape model applied to the shapes of a new slide; a picture without an
\* image path and a shape of kind unknown add nothing
ShapeApply(m, shapes) ==
    CASE m.cls = "TextBoxModel" -> TextBoxApply(m, shapes)
      [] m.cls = "TableModel"   -> TableApply(m, shapes)
      [] m.cls = "ChartModel"   -> apply_to_slide(CmOf(m), [shapes |-> shapes, rejects |-> {}]).shapes
      [] OTHER                  -> shapes

\* SlideModel.apply_to_pptx: the shapes in order
RECURSIVE SlideApply(_, _, _)
SlideApply(ms, i, shapes) ==
    IF i > Len(ms) THEN shapes
    ELSE SlideApply(ms, i + 1, ShapeApply(ms[i], shapes))

\* build_presentation: one new slide per slide model, in order
build_presentation(slideModels) ==
    [i \in 1..Len(slideModels) |-> SlideApply(slideModels[i], 1, <<>>)]

\* ------------------------------------------------------------------------
\* Bounded inputs: documents of text boxes, tables, charts and pictures
\* ------------------------------------------------------------------------
MaxDocShapes == 2
Spacings == {NoSpacing, LinesSpacing(Pt(3, 2)), FixedSpacing(100)}
DocTextBox(left, spacing) ==
    [kind |-> "text_box", name |-> Some("Title"), left |-> Some(left), top |-> Some(12700),
     width |-> Some(95250), height |-> Some(6350),
     text_frame |-> LiveTextFrame(<<LiveParagraph(<<"Hello", " world">>, spacing),
                                    LiveParagraph(<<>>, NoSpacing),
                                    LiveParagraph(<<"end">>, NoSpacing)>>)]
DocCell(text) == LiveTextFrame(<<LiveParagraph(<<text>>, NoSpacing)>>)
DocTable(left) ==
    [kind |-> "table", name |-> Some("Table 1"), left |-> Some(left), top |-> Some(0),
     width |-> Some(30000), height |-> Some(20000),
     rows |-> <<<<DocCell("a"), DocCell("b")>>, <<DocCell("c"), DocCell("d")>>>>,
     col_widths |-> <<10000, 20000>>]
DocPicture ==
    [kind |-> "picture", name |-> Some("Picture 1"), left |-> Some(0), top |-> Some(0),
     width |-> Some(12700), height |-> Some(12700)]
\* a series of three values, the second one missing when gap
GapSeries(gap) ==
    LiveSeries(Some("g"), <<Num(1), IF gap THEN None ELSE Num(2), Num(3)>>, FALSE, <<>>, <<>>, <<>>)
DocChart(native, style, gap) ==
    [LiveFrame(Some("Chart 1"), Some(4762), Some(95250), "none",
        LiveChartOf(native, style, "none", TRUE,
            IF native \in ScatterNatives \cup BubbleNatives
            THEN <<SeriesOfCounts(2, 2, 2)>>
            ELSE <<GapSeries(FALSE), GapSeries(gap)>>))
     EXCEPT !.top = Some(12700)]
DocShapes ==
    {DocTextBox(4762, sp) : sp \in Spacings}
    \cup {DocTable(0), DocPicture}
    \cup {DocChart(n, Some(7), FALSE) : n \in {"COLUMN_CLUSTERED", "XY_SCATTER_SMOOTH", "BUBBLE"}}
    \cup {DocChart("COLUMN_CLUSTERED", Some(7), TRUE), DocChart("BAR_STACKED", Some(49), FALSE)}
DocSlides == UNION {[1..n -> DocShapes] : n \in 0..MaxDocShapes}
OtherSlide == <<DocTextBox(0, NoSpacing), DocTable(0)>>

InitRoundTrip ==
    /\ IdleRange
    /\ IdleChart
    /\ IdleUpdate
    /\ \E sl \in DocSlides : inp \in {<<sl>>, <<sl, OtherSlide>>, <<OtherSlide, sl>>, <<>>}
    /\ out = <<>>
    /\ ppc = "init"

FromPresentation ==
    /\ ppc = "init"
    /\ out' = from_presentation(inp)
    /\ ppc' = "extracted"
    /\ UNCHANGED inp
    /\ UNCHANGED rangeVars
    /\ UNCHANGED chartVars
    /\ UNCHANGED updVars

BuildPresentation ==
    /\ ppc = "extracted"
    /\ out.st = "ok"
    /\ out' = [out EXCEPT !.doc = build_presentation(out.slides)]
    /\ ppc' = "built"
    /\ UNCHANGED inp
    /\ UNCHANGED rangeVars
    /\ UNCHANGED chartVars
    /\ UNCHANGED updVars

NextRoundTrip == FromPresentation \/ BuildPresentation

SpecRoundTrip == InitRoundTrip /\ [][NextRoundTrip]_vars

\* ---- what the round trip is to preserve ----
IsModeled(shape) == shape.kind \in {"text_box", "table", "chart"}
Modeled(shapes) == SelectSeq(shapes, IsModeled)
TextOf(tf) == [i \in 1..Len(tf.paragraphs) |-> tf.paragraphs[i].runs]
\* the values of a chart of the source document, by family
SourcePoints(s, family) ==
    IF family = "scatter" THEN [i \in 1..Len(s.xs) |-> <<s.xs[i], s.ys[i]>>]
    ELSE IF family = "bubble" THEN [i \in 1..Len(s.xs) |-> <<s.xs[i], s.ys[i], s.sizes[i]>>]
    ELSE [i \in 1..Len(s.values) |-> <<s.values[i]>>]
SourceValues(ch) ==
    [k \in 1..Len(ch.series) |-> SourcePoints(ch.series[k], _to_chart_type(ch.chart_type))]
\* the values of the chart data a rebuilt chart was created from
FloatOpt(v) == IF v.t = "none" THEN None ELSE Some(v.x)
BuiltPoints(sm) ==
    IF sm.cls = "CategorySeriesModel"
    THEN [i \in 1..Len(sm.f["values"].xs) |-> <<FloatOpt(sm.f["values"].xs[i])>>]
    ELSE IF sm.cls = "XySeriesModel"
    THEN [i \in 1..Len(sm.f["points"].xs) |->
             <<FloatOpt(sm.f["points"].xs[i].f["x"]), FloatOpt(sm.f["points"].xs[i].f["y"])>>]
    ELSE [i \in 1..Len(sm.f["points"].xs) |->
             <<FloatOpt(sm.f["points"].xs[i].f["x"]), FloatOpt(sm.f["points"].xs[i].f["y"]),
               FloatOpt(sm.f["points"].xs[i].f["size"])>>]
BuiltValues(cd) == [k \in 1..Len(cd.f["series"].xs) |-> BuiltPoints(cd.f["series"].xs[k])]

SameGeometry(src, new) ==
    IF new.kind = "chart"
    THEN <<src.left, src.top, src.width, src.height>>
         = <<Some(new.left), Some(new.top), Some(new.width), Some(new.height)>>
    ELSE <<src.left, src.top, src.width, src.height>> = <<new.left, new.top, new.width, new.height>>
SameContent(src, new) ==
    /\ src.kind = new.kind
    /\ SameGeometry(src, new)
    /\ src.kind = "text_box" => TextOf(src.text_frame) = TextOf(new.text_frame)
    /\ src.kind = "table" =>
          /\ Len(src.rows) = Len(new.rows)
          /\ \A r \in 1..Len(src.rows) :
                /\ Len(src.rows[r]) = Len(new.rows[r])
                /\ \A c \in 1..Len(src.rows[r]) : TextOf(src.rows[r][c]) = TextOf(new.rows[r][c])
    /\ src.kind = "chart" => SourceValues(src.chart) = BuiltValues(Get(new.chart.data))
SameSlide(srcShapes, newShapes) ==
    /\ Len(Modeled(srcShapes)) = Len(Modeled(newShapes))
    /\ \A j \in 1..Len(Modeled(srcShapes)) : SameContent(Modeled(srcShapes)[j], Modeled(newShapes)[j])

\* C14: from_presentation followed by build_presentation succeeds and gives a
\* document with as many slides as the source, in the same order, in which the
\* text boxes, tables and charts of each slide are those of the source slide,
\* in order, with the same run texts, the same left, top, width and height
\* and the same chart data values.
RoundTripPreserves ==
    /\ ppc # "init" => out.st = "ok"
    /\ ppc = "built" =>
          /\ Len(out.doc) = Len(inp)
          /\ \A i \in 1..Len(inp) : SameSlide(inp[i], out.doc[i])

\* ========================================================================
\* Point counts of extracted scatter and bubble series
\* ========================================================================
\* the series list of the data block of an extracted chart model
ExtractedSeries(m, block) == m.f[block].f["series"].xs
ExtractedPoints(m, block, k) == ExtractedSeries(m, block)[k].f["points"].xs
PairedSeries(k) == inp.chart.series[k].paired
ExtractedAs(family) ==
    /\ ppc = "extracted"
    /\ out.st = "ok"
    /\ inp.chart.seriesReadable
    /\ _to_chart_type(inp.chart.chart_type) = family
\* point i of an extracted series carries the x and y of the storage at i
CarriesXy(pt, s, i) == FloatOpt(pt.f["x"]) = s.xs[i] /\ FloatOpt(pt.f["y"]) = s.ys[i]

\* C21: a scatter series with paired x / y storage is extracted with
\* exactly min(xCount, yCount) points and a bubble series with exactly
\* min(xCount, yCount, sizeCount) points; point i carries x[i] and y[i], and
\* a bubble point whose size is missing is emitted with a null size.
PointCountTruncation ==
    /\ ExtractedAs("scatter") =>
          \A k \in 1..Len(inp.chart.series) : PairedSeries(k) =>
             /\ Len(ExtractedPoints(out.m, "xy_data", k))
                   = Min(Len(inp.chart.series[k].xs), Len(inp.chart.series[k].ys))
             /\ \A i \in 1..Len(ExtractedPoints(out.m, "xy_data", k)) :
                   CarriesXy(ExtractedPoints(out.m, "xy_data", k)[i], inp.chart.series[k], i)
    /\ ExtractedAs("bubble") =>
          \A k \in 1..Len(inp.chart.series) : PairedSeries(k) =>
             /\ Len(ExtractedPoints(out.m, "bubble_data", k))
                   = Min(Min(Len(inp.chart.series[k].xs), Len(inp.chart.series[k].ys)),
                         Len(inp.chart.series[k].sizes))
             /\ \A i \in 1..Len(ExtractedPoints(out.m, "bubble_data", k)) :
                   /\ CarriesXy(ExtractedPoints(out.m, "bubble_data", k)[i], inp.chart.series[k], i)
                   /\ FloatOpt(ExtractedPoints(out.m, "bubble_data", k)[i].f["size"])
                         = inp.chart.series[k].sizes[i]
\* 5 x-values and 3 y-values give 3 points; the bubble point without a size is kept
PointCountTruncationWitness ==
    /\ ExtractedAs("scatter") \/ ExtractedAs("bubble")
    /\ Len(inp.chart.series[2].xs) = 5
    /\ Len(inp.chart.series[2].ys) = 3
    /\ ExtractedAs("scatter") => Len(ExtractedPoints(out.m, "xy_data", 2)) = 3
    /\ ExtractedAs("bubble") =>
          /\ Len(ExtractedPoints(out.m, "bubble_data", 2)) = 3
          /\ ExtractedPoints(out.m, "bubble_data", 2)[2].f["size"] = PyNone

\* ========================================================================
\* _to_chart_type / _from_chart_type over the native chart types
\* ========================================================================
\* the members of XL_CHART_TYPE
XlChartTypes ==
    {"THREE_D_AREA", "THREE_D_AREA_STACKED", "THREE_D_AREA_STACKED_100", "THREE_D_BAR_CLUSTERED",
     "THREE_D_BAR_STACKED", "THREE_D_BAR_STACKED_100", "THREE_D_COLUMN", "THREE_D_COLUMN_CLUSTERED",
     "THREE_D_COLUMN_STACKED", "THREE_D_COLUMN_STACKED_100", "THREE_D_LINE", "THREE_D_PIE",
     "THREE_D_PIE_EXPLODED", "AREA", "AREA_STACKED", "AREA_STACKED_100", "BAR_CLUSTERED", "BAR_OF_PIE",
     "BAR_STACKED", "BAR_STACKED_100", "BUBBLE", "BUBBLE_THREE_D_EFFECT", "COLUMN_CLUSTERED",
     "COLUMN_STACKED", "COLUMN_STACKED_100", "CONE_BAR_CLUSTERED", "CONE_BAR_STACKED",
     "CONE_BAR_STACKED_100", "CONE_COL", "CONE_COL_CLUSTERED", "CONE_COL_STACKED", "CONE_COL_STACKED_100",
     "CYLINDER_BAR_CLUSTERED", "CYLINDER_BAR_STACKED", "CYLINDER_BAR_STACKED_100", "CYLINDER_COL",
     "CYLINDER_COL_CLUSTERED", "CYLINDER_COL_STACKED", "CYLINDER_COL_STACKED_100", "DOUGHNUT",
     "DOUGHNUT_EXPLODED", "LINE", "LINE_MARKERS", "LINE_MARKERS_STACKED", "LINE_MARKERS_STACKED_100",
     "LINE_STACKED", "LINE_STACKED_100", "PIE", "PIE_EXPLODED", "PIE_OF_PIE", "PYRAMID_BAR_CLUSTERED",
     "PYRAMID_BAR_STACKED", "PYRAMID_BAR_STACKED_100", "PYRAMID_COL", "PYRAMID_COL_CLUSTERED",
     "PYRAMID_COL_STACKED", "PYRAMID_COL_STACKED_100", "RADAR", "RADAR_FILLED", "RADAR_MARKERS",
     "STOCK_HLC", "STOCK_OHLC", "STOCK_VHLC", "STOCK_VOHLC", "SURFACE", "SURFACE_TOP_VIEW",
     "SURFACE_TOP_VIEW_WIREFRAME", "SURFACE_WIREFRAME", "XY_SCATTER", "XY_SCATTER_LINES",
     "XY_SCATTER_LINES_NO_MARKERS", "XY_SCATTER_SMOOTH", "XY_SCATTER_SMOOTH_NO_MARKERS"}
\* what ch.chart_type may hold besides a member: nothing at all
NativeInputs == XlChartTypes \cup {"None"}
\* strings that are not a family
FamilyInputs == ChartTypes \cup {"column_stacked", "SCATTER", ""}

InitChartType ==
    /\ IdleRange
    /\ IdleChart
    /\ IdleUpdate
    /\ \/ \E n \in NativeInputs : inp = [op |-> "to", arg |-> n]
       \/ \E f \in FamilyInputs : inp = [op |-> "from", arg |-> f]
    /\ out = [v |-> None]
    /\ ppc = "init"

\* _to_chart_type(xl_type)
ToChartType ==
    /\ ppc = "init"
    /\ inp.op = "to"
    /\ out' = [v |-> Some(_to_chart_type(inp.arg))]
    /\ ppc' = "mapped"
    /\ UNCHANGED inp
    /\ UNCHANGED rangeVars
    /\ UNCHANGED chartVars
    /\ UNCHANGED updVars

\* _from_chart_type(chart_type)
FromChartType ==
    /\ ppc = "init"
    /\ inp.op = "from"
    /\ out' = [v |-> _from_chart_type(inp.arg)]
    /\ ppc' = "reversed"
    /\ UNCHANGED inp
    /\ UNCHANGED rangeVars
    /\ UNCHANGED chartVars
    /\ UNCHANGED updVars

\* _to_chart_type on the native type _from_chart_type gave
BackToChartType ==
    /\ ppc = "reversed"
    /\ out.v # None
    /\ out' = [v |-> Some(_to_chart_type(Get(out.v)))]
    /\ ppc' = "back"
    /\ UNCHANGED inp
    /\ UNCHANGED rangeVars
    /\ UNCHANGED chartVars
    /\ UNCHANGED updVars

NextChartType == ToChartType \/ FromChartType \/ BackToChartType

SpecChartType == InitChartType /\ [][NextChartType]_vars

\* the keys of the lookup table (lines 31-46)
TableNatives ==
    {"COLUMN_CLUSTERED", "BAR_CLUSTERED", "LINE", "LINE_MARKERS", "PIE", "DOUGHNUT", "AREA",
     "XY_SCATTER", "XY_SCATTER_LINES", "XY_SCATTER_LINES_NO_MARKERS", "XY_SCATTER_SMOOTH",
     "XY_SCATTER_SMOOTH_NO_MARKERS", "BUBBLE", "BUBBLE_THREE_D_EFFECT"}
IsXyScatter(n) == n \in {"XY_SCATTER", "XY_SCATTER_LINES", "XY_SCATTER_LINES_NO_MARKERS",
                         "XY_SCATTER_SMOOTH", "XY_SCATTER_SMOOTH_NO_MARKERS"}

\* C22: _to_chart_type returns one of the nine families for every native
\* chart type: scatter for every XY scatter variant, bubble for both bubble
\* variants, column_clustered for every type that is not a key of the table;
\* and _to_chart_type(_from_chart_type(f)) = f for each of the nine families.
ChartTypeTotal ==
    /\ ppc = "mapped" =>
          /\ out.v # None
          /\ Get(out.v) \in ChartTypes
          /\ IsXyScatter(inp.arg) => Get(out.v) = "scatter"
          /\ inp.arg \in {"BUBBLE", "BUBBLE_THREE_D_EFFECT"} => Get(out.v) = "bubble"
          /\ inp.arg \notin TableNatives => Get(out.v) = "column_clustered"
    /\ (ppc = "reversed" /\ inp.arg \in ChartTypes) => out.v # None
    /\ (ppc = "back" /\ inp.arg \in ChartTypes) => out.v = Some(inp.arg)
ChartTypeTotalWitness ==
    /\ ppc = "mapped"
    /\ inp.arg = "XY_SCATTER_SMOOTH_NO_MARKERS"
    /\ out.v = Some("scatter")

\* ========================================================================
\* Enum mappings (enums.py): alignment, vertical anchor, autosize
\* ========================================================================
\* the native enumerations; a member is its integer value, which is what a
\* dict lookup hashes and compares
PPA == [LEFT |-> 1, CENTER |-> 2, RIGHT |-> 3, JUSTIFY |-> 4, DISTRIBUTE |-> 5,
        THAI_DISTRIBUTE |-> 6, JUSTIFY_LOW |-> 7, MIXED |-> -2]
VA == [TOP |-> 1, MIDDLE |-> 3, BOTTOM |-> 4, MIXED |-> -2]
AS == [NONE |-> 0, SHAPE_TO_FIT_TEXT |-> 1, TEXT_TO_FIT_SHAPE |-> 2, MIXED |-> -2]
\* the portable enumerations
ParagraphAlignment == {"left", "center", "right", "justify", "distributed"}
VerticalAnchor == {"top", "middle", "bottom"}
AutoSize == {"none", "text_to_fit_shape", "shape_to_fit_text"}

Returned(v) == [st |-> "ok", v |-> v]
KeyError == [st |-> "raise", v |-> None]

\* mapping.get(pp_align)
to_alignment_enum_strict(pp_align) ==
    CASE pp_align = Some(PPA.LEFT)       -> Returned(Some("left"))
      [] pp_align = Some(PPA.CENTER)     -> Returned(Some("center"))
      [] pp_align = Some(PPA.RIGHT)      -> Returned(Some("right"))
      [] pp_align = Some(PPA.JUSTIFY)    -> Returned(Some("justify"))
      [] pp_align = Some(PPA.DISTRIBUTE) -> Returned(Some("distributed"))
      [] OTHER                           -> KeyError
to_alignment_enum(pp_align) ==
    CASE pp_align = Some(PPA.LEFT)       -> Returned(Some("left"))
      [] pp_align = Some(PPA.CENTER)     -> Returned(Some("center"))
      [] pp_align = Some(PPA.RIGHT)      -> Returned(Some("right"))
      [] pp_align = Some(PPA.JUSTIFY)    -> Returned(Some("justify"))
      [] pp_align = Some(PPA.DISTRIBUTE) -> Returned(Some("distributed"))
      [] OTHER                           -> Returned(None)

\* None for None, reverse[alignment] otherwise
from_alignment_enum(alignment) ==
    CASE alignment = None                -> Returned(None)
      [] alignment = Some("left")        -> Returned(Some(PPA.LEFT))
      [] alignment = Some("center")      -> Returned(Some(PPA.CENTER))
      [] alignment = Some("right")       -> Returned(Some(PPA.RIGHT))
      [] alignment = Some("justify")     -> Returned(Some(PPA.JUSTIFY))
      [] alignment = Some("distributed") -> Returned(Some(PPA.DISTRIBUTE))
      [] OTHER                           -> KeyError

to_vertical_anchor(pp_anchor) ==
    CASE pp_anchor = Some(VA.TOP)    -> Returned(Some("top"))
      [] pp_anchor = Some(VA.MIDDLE) -> Returned(Some("middle"))
      [] pp_anchor = Some(VA.BOTTOM) -> Returned(Some("bottom"))
      [] OTHER                       -> Returned(None)

from_vertical_anchor(anchor) ==
    CASE anchor = None           -> Returned(None)
      [] anchor = Some("top")    -> Returned(Some(VA.TOP))
      [] anchor = Some("middle") -> Returned(Some(VA.MIDDLE))
      [] anchor = Some("bottom") -> Returned(Some(VA.BOTTOM))
      [] OTHER                   -> KeyError

\* None is a key of the table as well
to_auto_size(pp_autosize) ==
    CASE pp_autosize = None                       -> Returned(Some("none"))
      [] pp_autosize = Some(AS.NONE)              -> Returned(Some("none"))
      [] pp_autosize = Some(AS.TEXT_TO_FIT_SHAPE) -> Returned(Some("text_to_fit_shape"))
      [] pp_autosize = Some(AS.SHAPE_TO_FIT_TEXT) -> Returned(Some("shape_to_fit_text"))
      [] OTHER                                    -> Returned(None)

from_auto_size(auto_size) ==
    CASE auto_size = None                      -> Returned(None)
      [] auto_size = Some("none")              -> Returned(Some(AS.NONE))
      [] auto_size = Some("text_to_fit_shape") -> Returned(Some(AS.TEXT_TO_FIT_SHAPE))
      [] auto_size = Some("shape_to_fit_text") -> Returned(Some(AS.SHAPE_TO_FIT_TEXT))
      [] OTHER                                 -> KeyError

ToFns == {"to_alignment_enum", "to_vertical_anchor", "to_auto_size"}
FromFns == {"from_alignment_enum", "from_vertical_anchor", "from_auto_size"}
ApplyTo(fn, arg) ==
    CASE fn = "to_alignment_enum"  -> to_alignment_enum(arg)
      [] fn = "to_vertical_anchor" -> to_vertical_anchor(arg)
      [] fn = "to_auto_size"       -> to_auto_size(arg)
ApplyFrom(fn, arg) ==
    CASE fn = "from_alignment_enum"  -> from_alignment_enum(arg)
      [] fn = "from_vertical_anchor" -> from_vertical_anchor(arg)
      [] fn = "from_auto_size"       -> from_auto_size(arg)
\* the function of the other direction
Inverse(fn) ==
    CASE fn = "to_alignment_enum"    -> "from_alignment_enum"
      [] fn = "to_vertical_anchor"   -> "from_vertical_anchor"
      [] fn = "to_auto_size"         -> "from_auto_size"
      [] fn = "from_alignment_enum"  -> "to_alignment_enum"
      [] fn = "from_vertical_anchor" -> "to_vertical_anchor"
      [] fn = "from_auto_size"       -> "to_auto_size"

\* ---- bounded inputs: every integer a native member can be, and more ----
MaxNative == 8
NativeValues == {None} \cup {Some(n) : n \in -MaxNative..MaxNative}
PortableValues ==
    {None} \cup {Some(s) : s \in ParagraphAlignment \cup VerticalAnchor \cup AutoSize}

InitEnums ==
    /\ IdleRange
    /\ IdleChart
    /\ IdleUpdate
    /\ \/ \E fn \in ToFns, a \in NativeValues : inp = [fn |-> fn, native |-> a, portable |-> None]
       \/ \E fn \in FromFns, a \in PortableValues : inp = [fn |-> fn, native |-> None, portable |-> a]
    /\ out = Returned(None)
    /\ ppc = "init"

\* extraction: a native value to a member of the portable enum
ToPortable ==
    /\ ppc = "init"
    /\ inp.fn \in ToFns
    /\ out' = [r |-> ApplyTo(inp.fn, inp.native), back |-> Returned(None)]
    /\ ppc' = "mapped"
    /\ UNCHANGED inp
    /\ UNCHANGED rangeVars
    /\ UNCHANGED chartVars
    /\ UNCHANGED updVars

\* application: a member of the portable enum to a native value
FromPortable ==
    /\ ppc = "init"
    /\ inp.fn \in FromFns
    /\ out' = [r |-> ApplyFrom(inp.fn, inp.portable), back |-> Returned(None)]
    /\ ppc' = "mapped"
    /\ UNCHANGED inp
    /\ UNCHANGED rangeVars
    /\ UNCHANGED chartVars
    /\ UNCHANGED updVars

\* the function of the other direction on what was returned
MapBack ==
    /\ ppc = "mapped"
    /\ out.r.st = "ok"
    /\ out' = [out EXCEPT !.back = IF inp.fn \in ToFns THEN ApplyFrom(Inverse(inp.fn), out.r.v)
                                   ELSE ApplyTo(Inverse(inp.fn), out.r.v)]
    /\ ppc' = "back"
    /\ UNCHANGED inp
    /\ UNCHANGED rangeVars
    /\ UNCHANGED chartVars
    /\ UNCHANGED updVars

NextEnums == ToPortable \/ FromPortable \/ MapBack

SpecEnums == InitEnums /\ [][NextEnums]_vars

\* the keys of each lookup table, and the members each from_* function takes
TableKeys(fn) ==
    CASE fn = "to_alignment_enum"  ->
            {Some(PPA.LEFT), Some(PPA.CENTER), Some(PPA.RIGHT), Some(PPA.JUSTIFY), Some(PPA.DISTRIBUTE)}
      [] fn = "to_vertical_anchor" -> {Some(VA.TOP), Some(VA.MIDDLE), Some(VA.BOTTOM)}
      [] fn = "to_auto_size"       ->
            {None, Some(AS.NONE), Some(AS.TEXT_TO_FIT_SHAPE), Some(AS.SHAPE_TO_FIT_TEXT)}
MembersOf(fn) ==
    CASE fn = "from_alignment_enum"  -> ParagraphAlignment
      [] fn = "from_vertical_anchor" -> VerticalAnchor
      [] fn = "from_auto_size"       -> AutoSize

\* C23: each to_* function returns None, without raising, for every native
\* value that is not a key of its table; each from_* function returns None
\* for None and a native value for every member of its portable enum, and
\* does not raise.
EnumMappingsTotal ==
    ppc = "mapped" =>
        /\ (inp.fn \in ToFns /\ inp.native \notin TableKeys(inp.fn)) => out.r = Returned(None)
        /\ (inp.fn \in FromFns /\ inp.portable = None) => out.r = Returned(None)
        /\ (inp.fn \in FromFns /\ inp.portable # None /\ Get(inp.portable) \in MembersOf(inp.fn)) =>
              /\ out.r.st = "ok"
              /\ out.r.v # None
EnumMappingsTotalWitness ==
    /\ ppc = "mapped"
    /\ inp.fn = "to_alignment_enum"
    /\ inp.native = Some(PPA.JUSTIFY_LOW)
    /\ out.r = Returned(None)

\* ========================================================================
\* The four application entry points, called on any of their inputs
\* ========================================================================
\* apply_to_slide on a slide of one shape whose engine refuses nothing or
\* everything
InitSlideCalls ==
    /\ IdleRange
    /\ IdleChart
    /\ IdleUpdate
    /\ \E ct \in SlideChartTypes, kind \in DataKinds, ov \in Overrides,
          name \in ModelNames, R \in {{}, FrameSetters} :
          inp = [cm |-> ChartShape(MkCm(name, kind, 1, 2, ov, FALSE), ct, Pt(3, 8), Pt(10, 1),
                                   Pt(72, 1), Pt(72, 1)),
                 slide |-> SlideWith(1, R)]
    /\ out = <<>>
    /\ ppc = "init"
InitCalls == InitApply \/ InitWorkbook \/ Init \/ InitSlideCalls
NextCalls == NextApply \/ NextWorkbook \/ Next \/ NextSlide
SpecCalls == InitCalls /\ [][NextCalls]_vars

\* the model a call of apply_to_slide is made on (inp holds it while ppc is
\* "init" or "applied")
SlideCallModel(i, p) == IF p \in {"init", "applied"} THEN <<i.cm>> ELSE <<>>

\* C24: no step of apply_to_slide, apply_to_existing_chart,
\* update_workbook_only or update_charts_in_presentation, whether it succeeds,
\* fails or falls back, changes the ChartModel it is called on or the slides
\* of the PresentationModel.
ModelsReadOnly ==
    [][/\ self' = self
       /\ slides' = slides
       /\ SlideCallModel(inp', ppc') = SlideCallModel(inp, ppc)]_vars
\* a strict update where the workbook update failed and the full replacement ran
ModelsReadOnlyWitness ==
    /\ upc = "done"
    /\ strict
    /\ \E k \in 1..Len(calls) : calls[k].seq = <<"uwo", "apply">>

\* ========================================================================
\* Phases of apply_to_existing_chart: snapshot, replace, restore
\* ========================================================================
\* the positions in the log of the calls of a helper or of replace_data
CallPositions(key) == {i \in 1..Len(log) : log[i].op = "call" /\ log[i].key = key}
SnapshotCalls == {"snapshot_dlbls", "snapshot_axes", "snapshot_legend"}
RestoreCalls == {"restore_dlbls", "restore_axes", "restore_legend"}
ReplaceReturned == \E r \in CallPositions("replace_data") : log[r].ok

\* C25: in apply_to_existing_chart the three snapshots are taken before
\* replace_data is called; the three restores run if and only if replace_data
\* was called and returned without raising, and they run after it; a model
\* without a data block gives no call of replace_data and no restore.
PhaseOrdering ==
    (cpc = "applied" /\ log # <<>>) =>
        /\ \A k \in SnapshotCalls : Cardinality(CallPositions(k)) = 1
        /\ Cardinality(CallPositions("replace_data")) <= 1
        /\ \A k \in SnapshotCalls : \A p \in CallPositions(k) :
              \A r \in CallPositions("replace_data") : p < r
        /\ \A k \in RestoreCalls : (CallPositions(k) # {}) <=> ReplaceReturned
        /\ \A k \in RestoreCalls : \A p \in CallPositions(k) :
              \A r \in CallPositions("replace_data") : r < p
        /\ \A i \in 1..Len(log) :
              (log[i].op = "set" /\ CallPositions("replace_data") = {}) => log[i].dom = "chart"
        /\ ActiveBlock(self) = "none" =>
              /\ CallPositions("replace_data") = {}
              /\ \A k \in RestoreCalls : CallPositions(k) = {}
\* a replacement that returned on a formatted chart, followed by the restores
PhaseOrderingWitness ==
    /\ ReplaceSucceeded
    /\ ReplaceReturned
    /\ \A k \in RestoreCalls : CallPositions(k) # {}
    /\ \E i \in 1..Len(log) : log[i].op = "set" /\ log[i].dom # "chart"

\* ========================================================================
\* The restore phase, field by field
\* ========================================================================
\* the assignment of a live property was attempted (it is in the log whether
\* the engine accepted it or not)
Attempted(dom, i, key) ==
    \E j \in 1..Len(log) :
        log[j].op = "set" /\ log[j].dom = dom /\ log[j].idx = i /\ log[j].key = key
\* the fields of series i that the data-label snapshot holds and restore is to write
DlFieldsToRestore(i) ==
    IF chart.seriesRaises \/ i > Len(snapshot_dlbls(chart0)) \/ i > Len(chart.series) THEN {}
    ELSE IF ~chart.series[i].dlReadable THEN {}
    ELSE {k \in DlKeySet : snapshot_dlbls(chart0)[i].f[k] # None}
\* the fields of an axis that its snapshot holds; the title text only with a title
AxisFieldsToRestore(name) ==
    IF ~chart.axes[name].exists THEN {}
    ELSE {k \in AxisKeySet :
            /\ snap_axis(chart0, name).f[k] # None
            /\ k = "title_text" => snap_axis(chart0, name).f["has_title"] = Some(TRUE)}
\* the legend fields its snapshot holds; position and layout only with a legend
LegendFieldsToRestore ==
    IF snapshot_legend(chart0).has_legend # Some(TRUE) THEN {}
    ELSE {k \in Range(LegendKeys) : snapshot_legend(chart0).f[k] # None}

\* C26: after a data replacement that returned, the call does not raise and
\* every field the snapshots hold is written to its series, axis or legend,
\* whichever single assignment the engine refuses: a refused assignment does
\* not keep the other fields of the same series, axis or legend from being
\* written.
RestoreBestEffortPerField ==
    ReplaceSucceeded =>
        /\ \A i \in 1..Len(chart.series) : \A k \in DlFieldsToRestore(i) : Attempted("dl", i, k)
        /\ \A name \in Range(AxisNames) : \A k \in AxisFieldsToRestore(name) : Attempted(name, 0, k)
        /\ snapshot_legend(chart0).has_legend # None => Attempted("chart", 0, "has_legend")
        /\ \A k \in LegendFieldsToRestore : Attempted("legend", 0, k)

\* ========================================================================
\* The data-label snapshot, series by series
\* ========================================================================
\* the record of one series: its data-label fields, or nothing
DlRecordOf(s) == IF s.dlReadable THEN s.dl ELSE [k \in DlKeySet |-> None]
\* one record per series of the chart before the call, in series order
OneRecordPerSeries ==
    /\ Len(snapshot_dlbls(chart0)) = Len(chart0.series)
    /\ \A i \in 1..Len(chart0.series) : snapshot_dlbls(chart0)[i].f = DlRecordOf(chart0.series[i])
\* the series a record is restored to
RestoredSeries == 1..Min(Len(snapshot_dlbls(chart0)), Len(chart.series))
\* the first field of DlKeys that record i holds
FirstDlField(i) ==
    DlKeys[CHOOSE k \in 1..Len(DlKeys) :
              /\ DlKeys[k] \in DlFieldsToRestore(i)
              /\ \A j \in 1..(k - 1) : DlKeys[j] \notin DlFieldsToRestore(i)]
\* every write of a data-label field goes to a series that has a record, is a
\* field that record holds and, when accepted, leaves the record's value; each
\* record that holds a field is taken up on the series of its own index
RecordsRestoredByIndex ==
    /\ \A j \in 1..Len(log) : (log[j].op = "set" /\ log[j].dom = "dl") =>
          /\ log[j].idx \in RestoredSeries
          /\ snapshot_dlbls(chart0)[log[j].idx].f[log[j].key] # None
          /\ log[j].ok =>
                chart.series[log[j].idx].dl[log[j].key] = snapshot_dlbls(chart0)[log[j].idx].f[log[j].key]
    /\ \A i \in RestoredSeries : DlFieldsToRestore(i) # {} => Attempted("dl", i, FirstDlField(i))

DlCaptureFails == chart0.seriesRaises \/ \E i \in 1..Len(chart0.series) : ~chart0.series[i].dlReadable
AxisCaptureFails(name) == ~chart0.axes[name].exists \/ ~chart0.axes[name].readable
LegendCaptureFails == ~chart0.legendReadable
CaptureFails ==
    DlCaptureFails \/ LegendCaptureFails \/ \E name \in Range(AxisNames) : AxisCaptureFails(name)
\* the fields of the domains that were captured are written back with the
\* values they had before the call
DlRestored ==
    \A i \in 1..Len(chart.series) : \A k \in DlFieldsToRestore(i) :
        Attempted("dl", i, k) /\ chart.series[i].dl[k] = chart0.series[i].dl[k]
AxisRestored(name) ==
    \A k \in AxisFieldsToRestore(name) :
        Attempted(name, 0, k) /\ chart.axes[name].p[k] = chart0.axes[name].p[k]
LegendRestored ==
    /\ snapshot_legend(chart0).has_legend # None => Attempted("chart", 0, "has_legend")
    /\ \A k \in LegendFieldsToRestore : Attempted("legend", 0, k)

\* C28: when capturing the data-label, category-axis, value-axis or legend
\* snapshot fails, apply_to_existing_chart does not raise because of it, the
\* data replacement is still made, and the snapshots that were captured are
\* restored after it.
SnapshotDomainsIsolated ==
    (cpc = "applied" /\ log # <<>> /\ CaptureFails) =>
        /\ res.st = "raise" => (ActiveBlock(self) # "none" /\ self.cdRaises)
        /\ \A k \in SnapshotCalls : CallPositions(k) # {}
        /\ (ActiveBlock(self) # "none" /\ ~self.cdRaises) => CallPositions("replace_data") # {}
        /\ ReplaceSucceeded =>
              /\ DlRestored
              /\ \A name \in Range(AxisNames) : AxisRestored(name)
              /\ LegendRestored
\* the value axis cannot be read: the category axis, the data labels and the
\* legend come back after a replacement that reset them
SnapshotDomainsIsolatedWitness ==
    /\ ReplaceSucceeded
    /\ chart0.replaceMode = "reset_on"
    /\ ~chart0.axes["value_axis"].readable
    /\ chart0.axes["category_axis"].p["major_unit"] = Some(1)
    /\ Attempted("category_axis", 0, "major_unit")
    /\ chart.axes["category_axis"].p["major_unit"] = Some(1)
    /\ Attempted("dl", 1, "number_format")
    /\ ~Attempted("value_axis", 0, "major_unit")

\* ========================================================================
\* Specification SpecBlocks: the three write paths on models that carry more
\* than one data block (charts.py 309-325, 622-712, 855-935)
\* ------------------------------------------------------------------------
\* the three blocks differ in series count and point count, so the block a
\* path has read can be told from what it wrote
BlockChoices(b) ==
    {None, Some(IF b = "category" THEN CategoryData(1, 2)
                ELSE IF b = "xy" THEN XyData(2, 1) ELSE BubbleData(2, 3))}

MultiBlockModels ==
    {[MkCm(name, "category", 1, 2, ov, FALSE) EXCEPT
         !.category_data = cat, !.xy_data = xy, !.bubble_data = bub] :
       name \in {None, Some("A")}, ov \in {"none", "all"},
       cat \in BlockChoices("category"), xy \in BlockChoices("xy"),
       bub \in BlockChoices("bubble")}

InitBlocks ==
    /\ IdleRange
    /\ IdleUpdate
    /\ \/ /\ IdlePure
          /\ \E cm \in MultiBlockModels, shape \in {"range", "single"},
                n \in SeriesCounts, mode \in ReplaceModes :
                /\ self = cm
                /\ chart = [WbChart(shape, SheetS1, 1, n, "ok", FALSE, FALSE)
                               EXCEPT !.replaceMode = mode]
          /\ chart0 = chart
          /\ res = NoRes
          /\ log = <<>>
          /\ cpc = "init"
       \/ /\ IdleChart
          /\ \E cm \in MultiBlockModels, ct \in SlideChartTypes :
                inp = [cm |-> ChartShape(cm, ct, Pt(3, 8), Pt(10, 1), Pt(72, 1), Pt(72, 1)),
                       slide |-> SlideWith(1, {})]
          /\ out = <<>>
          /\ ppc = "init"

NextBlocks == ApplyToExistingChart \/ UpdateWorkbookOnly \/ ApplyToSlide
SpecBlocks == InitBlocks /\ [][NextBlocks]_vars

\* the first populated block in the order category, xy, bubble
FirstBlock(cm) ==
    IF cm.category_data # None THEN "category"
    ELSE IF cm.xy_data # None THEN "xy"
    ELSE IF cm.bubble_data # None THEN "bubble"
    ELSE "none"
BlockOf(cm, b) ==
    IF b = "category" THEN cm.category_data
    ELSE IF b = "xy" THEN cm.xy_data
    ELSE IF b = "bubble" THEN cm.bubble_data ELSE None
\* the same model with every block but the first populated one removed
OnlyFirstBlock(cm) ==
    [cm EXCEPT !.category_data = IF FirstBlock(cm) = "category" THEN @ ELSE None,
               !.xy_data = IF FirstBlock(cm) = "xy" THEN @ ELSE None,
               !.bubble_data = IF FirstBlock(cm) = "bubble" THEN @ ELSE None]
PopulatedBlocks(cm) == {b \in {"category", "xy", "bubble"} : BlockOf(cm, b) # None}
AddedChart == out.shapes[Len(out.shapes)]

\* C29: new-chart creation, styling-preserving replacement and workbook-only
\* update each use the first populated block in the order category, xy,
\* bubble, whatever chart_type says; a lower-priority block that is populated
\* as well has no effect on what is written (a replacement the engine refuses
\* leaves the chart's data as it was)
DataBlockSelection ==
    /\ cpc = "applied" =>
          /\ chart = apply_to_existing_chart(OnlyFirstBlock(self), chart0).chart
          /\ log = apply_to_existing_chart(OnlyFirstBlock(self), chart0).log
          /\ FirstBlock(self) # "none" /\ chart0.replaceMode # "raise" =>
                chart.data = Some([kind |-> FirstBlock(self),
                                   n |-> Len(Get(BlockOf(self, FirstBlock(self))).series)])
          /\ FirstBlock(self) = "none" \/ chart0.replaceMode = "raise" =>
                chart.data = chart0.data
    /\ cpc = "updated" =>
          /\ chart = update_workbook_only(OnlyFirstBlock(self), chart0).chart
          /\ res.ret = update_workbook_only(OnlyFirstBlock(self), chart0).ret
          /\ FirstBlock(self) = "none" => chart = chart0 /\ ~res.ret
    /\ ppc = "applied" /\ "cm" \in DOMAIN inp /\ "slide" \in DOMAIN inp =>
          /\ out = apply_to_slide(OnlyFirstBlock(inp.cm), inp.slide)
          /\ Len(out.shapes) > Len(inp.slide.shapes) =>
                AddedChart.chart.data = BlockOf(inp.cm, FirstBlock(inp.cm))
          /\ FirstBlock(inp.cm) = "none" => out.shapes = inp.slide.shapes

\* each path has run on a model with a lower-priority block populated as well,
\* the slide path with a chart_type of another family
DataBlockSelectionWitness ==
    \/ /\ cpc = "applied"
       /\ PopulatedBlocks(self) = {"category", "xy", "bubble"}
       /\ chart.data = Some([kind |-> "category", n |-> 1])
    \/ /\ cpc = "updated"
       /\ PopulatedBlocks(self) = {"xy", "bubble"}
       /\ res.ret
       /\ chart.blob.wb # chart0.blob.wb
    \/ /\ ppc = "applied"
       /\ "cm" \in DOMAIN inp
       /\ PopulatedBlocks(inp.cm) = {"category", "bubble"}
       /\ inp.cm.chart_type = "bubble"
       /\ Len(out.shapes) = 2

\* ------------------------------------------------------------------------
\* Pairing as a matching of live chart shapes
\* ------------------------------------------------------------------------
PairedLive(ps) == {ps[k].g : k \in 1..Len(ps)}
ModelsPairedWith(ps, g) == {k \in 1..Len(ps) : ps[k].g = g}
\* two chart models of the slide bear the same truthy name
DuplicateModelNames(mshapes) ==
    \E j \in 1..Len(mshapes), k \in 1..Len(mshapes) :
        /\ j < k
        /\ mshapes[j].isChart /\ mshapes[k].isChart
        /\ Truthy(mshapes[j].cm.name)
        /\ mshapes[j].cm.name = mshapes[k].cm.name

\* C30: on every slide no live chart shape is paired with more than one model
\* chart, and there are never more pairs than live chart shapes
PairingOneToOne ==
    upc = "pairs" =>
        /\ \A g \in PairedLive(filled) : Cardinality(ModelsPairedWith(filled, g)) = 1
        /\ Len(filled) <= Len(slide_chart_shapes(prs[slide_i]))
====
